---- MODULE Spec2Model ----
(***************************************************************************)
(* A model of the procedural audio generator scripts/generate_audio.py.   *)
(*                                                                         *)
(* Sample buffers are Python lists of floats.  They are modelled as        *)
(* sequences of integers (exact arithmetic: a sample is a whole number of  *)
(* some fixed small unit), position p of a sequence holding the Python     *)
(* element of index p-1.  A call that raises a Python exception yields     *)
(* the record Raised; a call that returns yields Returned(buffer).         *)
(***************************************************************************)
EXTENDS Integers, Sequences, FiniteSets, TLC

VARIABLES
    ov,        \* one call of overlay_samples: its arguments and its outcome
    events,    \* the rendered events of one track, in the order of the loops
    pending,   \* the events not yet overlaid on the timeline
    result,    \* the timeline buffer `result` of a gen_lofi_track
    reordered, \* whether an event was overlaid before an earlier one
    seq,       \* one call of gen_lofi_track_01/02/03: where it is, what it did
    rc,        \* one call of a recipe: its duration and the length it returns
    mx,        \* one call of mix: its arguments and its outcome
    nz,        \* one call of normalize: its arguments and its outcome
    proc,      \* the process: the state of the module-level generator of
               \* `random`, and the calls of noise and recipes made in it
    env,       \* one call of apply_envelope: its arguments and its outcome
    flt,       \* the filter calls of a process: the last one and a watched one
    batch,     \* one run of main: the manifest entry it is at, what it wrote
    fr,        \* one call of a primitive on list objects: the lists before
               \* and after it
    osc,       \* one oscillator loop: its phase accumulator and iteration
    land,      \* one call of gen_landing_success: its chord notes
    rg,        \* one run of generate_region_data on one region
    rt,        \* a country file written by generate_dart and parsed back
    ct,        \* the cities section over regenerations of country_data.dart
    conv       \* one run of convert_assets.main

vars == <<ov, events, pending, result, reordered, seq, rc, mx, nz, proc,
          env, flt, batch, fr, osc, land, rg, rt, ct, conv>>

tlVars == <<events, pending, result, reordered>>
scriptVars == <<land, rg, rt, ct, conv>>
audioCallVars == <<env, flt, batch, fr, osc>>
callVars == <<env, flt, batch, fr, osc, scriptVars>>
primVars == <<mx, nz, proc, callVars>>
earlierVars == <<ov, tlVars, seq, rc, mx, nz, proc>>

----------------------------------------------------------------------------
(* Bounds of the model *)

\* the longest base buffer handed to overlay_samples
MaxBase == 3
\* the longest overlay buffer handed to overlay_samples
MaxOverlay == 2

\* the length of the timeline buffer of a track
MaxTimeline == 2
\* the most events a track overlays
MaxEvents == 3

\* the longest track duration, in whole seconds
MaxDuration == 14

\* the longest recipe duration, in milliseconds
MaxMs == 160

\* the most buffers handed to mix, and the longest of them
MaxMixBufs == 2
MaxMixLen == 2
\* the longest buffer handed to normalize
MaxNormLen == 2

\* the longest buffer of noise drawn in the process
MaxNoise == 2

\* the longest buffer given to apply_envelope, and its longest ramp
MaxEnvLen == 5
MaxRamp == 3

\* the longest buffer given to a filter
MaxFilterLen == 3

\* the longest list on the heap a primitive is called on
MaxFrameLen == 2

\* the most iterations of an oscillator loop
MaxSteps == 230
\* iterations of an oscillator loop run at a slowly varying frequency, and
\* the iterations one frequency is held for
MaxIters == 2500
\* the longest landing chime, in milliseconds
MaxLandMs == 1000
\* the most subdivisions of one region in the shapefile
MaxRows == 4
\* the most countries and cities of a country file, and the longest text
\* handed to the parser that no writer made
MaxCountries == 2
MaxCities == 1
MaxText == 4
\* the regenerations of the country file in one run of the model
MaxRegens == 2
Hold == 500

\* the sample values buffers are drawn from
SampleVals == {-1, 0, 2}
\* the amplitudes events are overlaid with
AmpVals == {1, 2, -3}

----------------------------------------------------------------------------
(* Outcomes of a call *)

Raised == [buf |-> <<>>, ok |-> FALSE]
Returned(buf) == [buf |-> buf, ok |-> TRUE]

\* all sequences over S of length 0..n
RECURSIVE SeqsUpTo(_, _)
SeqsUpTo(S, n) ==
    IF n = 0 THEN {<<>>}
    ELSE LET shorter == SeqsUpTo(S, n - 1)
         IN  shorter \cup {Append(q, x) : q \in {r \in shorter : Len(r) = n - 1}, x \in S}

\* the position (1-based) a Python list of length n gives index idx, 0 when
\* the subscript raises IndexError: a negative index counts from the end
PyIndex(n, idx) ==
    IF idx >= 0 /\ idx < n THEN idx + 1
    ELSE IF idx < 0 /\ idx >= -n THEN idx + n + 1
    ELSE 0

----------------------------------------------------------------------------
(* overlay_samples *)

\* the loop of overlay_samples from overlay index i on, `res` being the copy
\* of base made on entry
RECURSIVE OverlayLoop(_, _, _, _, _)
OverlayLoop(res, overlay, start_sample, amp, i) ==
    IF i >= Len(overlay) THEN Returned(res)
    ELSE LET idx == start_sample + i
             p   == PyIndex(Len(res), idx)
         IN  IF idx < Len(res)
             THEN IF p = 0 THEN Raised
                  ELSE OverlayLoop([res EXCEPT ![p] = @ + overlay[i + 1] * amp],
                                   overlay, start_sample, amp, i + 1)
             ELSE OverlayLoop(res, overlay, start_sample, amp, i + 1)

\* overlay_samples with `result[idx] = s * amp` for `result[idx] += s * amp`
RECURSIVE OverlayLoopAssign(_, _, _, _, _)
OverlayLoopAssign(res, overlay, start_sample, amp, i) ==
    IF i >= Len(overlay) THEN Returned(res)
    ELSE LET idx == start_sample + i
             p   == PyIndex(Len(res), idx)
         IN  IF idx < Len(res)
             THEN IF p = 0 THEN Raised
                  ELSE OverlayLoopAssign([res EXCEPT ![p] = overlay[i + 1] * amp],
                                         overlay, start_sample, amp, i + 1)
             ELSE OverlayLoopAssign(res, overlay, start_sample, amp, i + 1)

overlay_samples_assign(base, overlay, start_sample, amp) ==
    OverlayLoopAssign(base, overlay, start_sample, amp, 0)

\* overlay_samples with `idx % len(result)` for the guard `idx < len(result)`
RECURSIVE OverlayLoopWrap(_, _, _, _, _)
OverlayLoopWrap(res, overlay, start_sample, amp, i) ==
    IF i >= Len(overlay) \/ Len(res) = 0 THEN Returned(res)
    ELSE LET p == ((start_sample + i) % Len(res)) + 1
         IN  OverlayLoopWrap([res EXCEPT ![p] = @ + overlay[i + 1] * amp],
                             overlay, start_sample, amp, i + 1)

overlay_samples_wrap(base, overlay, start_sample, amp) ==
    OverlayLoopWrap(base, overlay, start_sample, amp, 0)

overlay_samples(base, overlay, start_sample, amp) ==
    OverlayLoop(base, overlay, start_sample, amp, 0)

OvIdle == [pc |-> "idle", base |-> <<>>, overlay |-> <<>>, start_sample |-> 0,
           amp |-> 0, out |-> Raised]

TimelineIdle ==
    events = <<>> /\ pending = {} /\ result = Raised /\ reordered = FALSE

SeqIdle ==
    seq = [pc |-> "idle", track |-> 0, duration |-> 0, n |-> 0, i |-> 0,
           overlays |-> <<>>, chain |-> <<>>]

RcIdle ==
    rc = [pc |-> "idle", recipe |-> "", open_hat |-> FALSE, duration |-> 0,
          out |-> [ok |-> FALSE, len |-> 0]]

MxIdle ==
    mx = [pc |-> "idle", sample_lists |-> <<>>,
          weights |-> [given |-> FALSE, list |-> <<>>], out |-> Raised]

NzIdle ==
    nz = [pc |-> "idle", samples |-> <<>>, peak |-> <<0, 1>>, out |-> Raised,
          divided |-> FALSE]

NoCall == [fn |-> "", n |-> 0, seed |-> 0]

ProcIdle ==
    proc = [pc |-> "idle", g |-> 0, g0 |-> 0, watch |-> NoCall,
            first |-> [set |-> FALSE, out |-> Raised], between |-> FALSE,
            call |-> NoCall, out |-> Raised]

EnvIdle ==
    env = [pc |-> "idle", samples |-> <<>>, attack |-> 0, release |-> 0,
           out |-> Raised]
NoFilterCall == [fn |-> "", high_hz |-> 0, low_hz |-> 0, samples |-> <<>>]

FltIdle ==
    flt = [pc |-> "idle", prior |-> NoFilterCall, call |-> NoFilterCall,
           out |-> <<>>]
BatchIdle ==
    batch = [pc |-> "idle", i |-> 0, samples |-> [len |-> 0, ok |-> FALSE],
             written |-> {}, failed |-> {}, raised |-> "", log |-> <<>>]
FrIdle ==
    fr = [pc |-> "idle", kind |-> "", heap0 |-> <<>>, heap |-> <<>>,
          fn |-> "", args |-> <<>>, ret |-> 0, ok |-> FALSE]
OscIdle ==
    osc = [pc |-> "idle", name |-> "", phase |-> 0, p |-> 0, freq |-> 0,
           i |-> 0, before |-> 0]

LandIdle == land = [pc |-> "idle", ms |-> 0, n |-> 0, k |-> 0, notes |-> <<>>]
RgIdle ==
    rg = [pc |-> "idle", region |-> "", rows |-> <<>>, i |-> 0, lines |-> <<>>,
          doc |-> 0, console |-> 0]
RtIdle ==
    rt = [pc |-> "idle", written |-> FALSE, countries |-> <<>>,
          cities |-> <<>>, content |-> <<>>, i |-> 0, in_polygons |-> FALSE,
          poly_depth |-> 0, current_poly |-> <<>>, all_polygons |-> <<>>]
NoFile == [exists |-> FALSE, text |-> <<>>]
CtIdle ==
    ct = [pc |-> "idle", output |-> NoFile, backup |-> NoFile,
          prior |-> NoFile, found |-> FALSE, block |-> <<>>, kept |-> <<>>,
          gen |-> 0]
ConvIdle ==
    conv = [pc |-> "idle", i |-> 0, missing |-> {}, exc |-> "",
            heightmap_path |-> "None", arg |-> "", ran |-> <<>>,
            raised |-> {}, reported |-> {}]

ScriptIdle == LandIdle /\ RgIdle /\ RtIdle /\ CtIdle /\ ConvIdle

CallIdle ==
    EnvIdle /\ FltIdle /\ BatchIdle /\ FrIdle /\ OscIdle /\ ScriptIdle

PrimIdle == MxIdle /\ NzIdle /\ ProcIdle /\ CallIdle

\* a caller has its arguments ready
OvInit ==
    /\ \E base \in SeqsUpTo(SampleVals, MaxBase),
          overlay \in SeqsUpTo(SampleVals, MaxOverlay),
          start_sample \in -(MaxBase + 1) .. (MaxBase + 1),
          amp \in AmpVals :
          ov = [pc |-> "call", base |-> base, overlay |-> overlay,
                start_sample |-> start_sample, amp |-> amp, out |-> Raised]
    /\ TimelineIdle
    /\ SeqIdle
    /\ RcIdle
    /\ PrimIdle

OvCall ==
    /\ ov.pc = "call"
    /\ ov' = [ov EXCEPT !.pc = "done",
                        !.out = overlay_samples(ov.base, ov.overlay,
                                                ov.start_sample, ov.amp)]
    /\ UNCHANGED <<tlVars, seq, rc, primVars>>

SpecOverlay == OvInit /\ [][OvCall]_vars

\* C1: for a start offset >= 0, overlay_samples returns a buffer as long as
\* base in which index start+i holds base[start+i] + amp*overlay[i] wherever
\* start+i < len(base), every other index holds the base value, and the
\* overlay samples that would land at or past len(base) are dropped.
C1_OverlayPointwise ==
    (ov.pc = "done" /\ ov.start_sample >= 0) =>
        /\ ov.out.ok
        /\ Len(ov.out.buf) = Len(ov.base)
        /\ \A p \in 1 .. Len(ov.base) :
              LET i == (p - 1) - ov.start_sample
              IN  ov.out.buf[p] =
                      ov.base[p] + (IF i >= 0 /\ i < Len(ov.overlay)
                                    THEN ov.amp * ov.overlay[i + 1] ELSE 0)

\* an overlay that starts inside the base, changes a sample and runs past
\* the end of the base
C1_Witness ==
    /\ ov.pc = "done"
    /\ ov.start_sample >= 0
    /\ ov.start_sample < Len(ov.base)
    /\ ov.start_sample + Len(ov.overlay) > Len(ov.base)
    /\ ov.out.ok
    /\ ov.out.buf # ov.base
    /\ ov.base[ov.start_sample + 1] # 0

----------------------------------------------------------------------------
(* The timeline of a track: `result = [0.0] * n`, then one                 *)
(* `result = overlay_samples(result, tone, start[, amp])` per event.  The  *)
(* loops of the source overlay the events in list order; here any pending  *)
(* event may be overlaid next, each overlay in one step.                   *)

\* the rendered buffers of the instruments
Tones == {<<1>>, <<2, -1>>}
\* the amplitudes a track overlays with
TrackAmps == {1, 2}

Event == [samples : Tones, start : 0 .. MaxTimeline, amp : TrackAmps]

Silence(n) == [p \in 1 .. n |-> 0]

TimelineInit ==
    /\ ov = OvIdle
    /\ events \in SeqsUpTo(Event, MaxEvents)
    /\ pending = 1 .. Len(events)
    /\ result = Returned(Silence(MaxTimeline))
    /\ reordered = FALSE
    /\ SeqIdle
    /\ RcIdle
    /\ PrimIdle

OverlayEvent(k) ==
    /\ k \in pending
    /\ result.ok
    /\ result' = overlay_samples(result.buf, events[k].samples,
                                 events[k].start, events[k].amp)
    /\ pending' = pending \ {k}
    /\ reordered' = (reordered \/ \E j \in pending : j < k)
    /\ UNCHANGED <<ov, events, seq, rc, primVars>>

TimelineNext == \E k \in 1 .. MaxEvents : OverlayEvent(k)

SpecTimeline == TimelineInit /\ [][TimelineNext]_vars

\* the events overlaid so far
Applied == (1 .. Len(events)) \ pending

\* what event k contributes to Python index idx
Contribution(k, idx) ==
    LET i == idx - events[k].start
    IN  IF i >= 0 /\ i < Len(events[k].samples)
        THEN events[k].amp * events[k].samples[i + 1] ELSE 0

\* the sum of the contributions of the events of K among 1..k to index idx
RECURSIVE SumContributions(_, _, _)
SumContributions(K, k, idx) ==
    IF k = 0 THEN 0
    ELSE SumContributions(K, k - 1, idx)
         + (IF k \in K THEN Contribution(k, idx) ELSE 0)

UnitEvent(k) == events[k].samples = <<1>> /\ events[k].amp = 1

\* C2: after any sequence of overlays onto a silent timeline every sample is
\* the sum of amp*overlay[k] over the overlaid events covering its index;
\* two one-sample unit events at one offset leave exactly 2 there and 0
\* everywhere else.
C2_OverlayAdditive ==
    /\ result.ok
    /\ Len(result.buf) = MaxTimeline
    /\ \A p \in 1 .. MaxTimeline :
          result.buf[p] = SumContributions(Applied, Len(events), p - 1)
    /\ \A j, k \in 1 .. Len(events) :
          (/\ j # k /\ Applied = {j, k}
           /\ UnitEvent(j) /\ UnitEvent(k)
           /\ events[j].start = events[k].start
           /\ events[j].start < MaxTimeline)
          => \A p \in 1 .. MaxTimeline :
                result.buf[p] = IF p - 1 = events[j].start THEN 2 ELSE 0

\* two one-sample unit events overlaid at the same offset
C2_Witness ==
    \E j, k \in Applied :
        /\ j # k /\ Applied = {j, k}
        /\ UnitEvent(j) /\ UnitEvent(k)
        /\ events[j].start = events[k].start
        /\ events[j].start < MaxTimeline
        /\ result.ok
        /\ result.buf[events[j].start + 1] = 2

\* the timeline the loops of the source build: events 1..k overlaid in order
RECURSIVE SequentialTimeline(_)
SequentialTimeline(k) ==
    IF k = 0 THEN Returned(Silence(MaxTimeline))
    ELSE LET before == SequentialTimeline(k - 1)
         IN  IF before.ok
             THEN overlay_samples(before.buf, events[k].samples,
                                  events[k].start, events[k].amp)
             ELSE Raised

\* C3: once every event is overlaid, in whatever order, the timeline equals
\* the one the sequential in-order loops produce.
C3_OrderIndependent ==
    pending = {} => result = SequentialTimeline(Len(events))

\* every event overlaid, not in list order, two of them landing on one index
C3_Witness ==
    /\ pending = {}
    /\ reordered
    /\ result.ok
    /\ \E j, k \in 1 .. Len(events), p \in 1 .. MaxTimeline :
          /\ j < k
          /\ Contribution(j, p - 1) # 0
          /\ Contribution(k, p - 1) # 0
          /\ Contribution(j, p - 1) # Contribution(k, p - 1)

----------------------------------------------------------------------------
(* The sequencer: gen_lofi_track_01, gen_lofi_track_02, gen_lofi_track_03. *)
(* Times are exact rationals: a beat offset is a whole number of quarter   *)
(* beats, a duration a whole number of seconds, and int(x) of a            *)
(* non-negative quotient is the floor division.  The timeline of 44100     *)
(* samples a second is held as its length n and the list of overlays made  *)
(* on it (role, beat position, start index, length and gain of the         *)
(* overlaid buffer), followed by the chain of whole-buffer stages applied. *)

SAMPLE_RATE == 44100

Tracks == {1, 2, 3}

bpm(t) == CASE t = 1 -> 75 [] t = 2 -> 68 [] t = 3 -> 80

\* <<beat_offset in quarter beats, MIDI note, duration in quarter beats,
\*   amp in hundredths>>
melody_notes(t) ==
    CASE t = 1 ->
    <<<<0, 72, 4, 60>>, <<4, 69, 2, 50>>, <<6, 67, 2, 50>>, <<8, 64, 4, 55>>,
      <<12, 67, 2, 50>>, <<14, 69, 2, 50>>, <<16, 72, 6, 60>>,
      <<22, 67, 2, 50>>, <<24, 64, 4, 55>>, <<28, 60, 4, 50>>,
      <<32, 69, 3, 55>>, <<36, 67, 2, 50>>, <<38, 64, 2, 50>>,
      <<40, 72, 4, 60>>, <<44, 69, 4, 55>>>>
    [] t = 2 ->
    <<<<0, 69, 4, 60>>, <<4, 67, 2, 50>>, <<6, 64, 2, 50>>, <<8, 62, 6, 55>>,
      <<14, 60, 2, 50>>, <<16, 64, 4, 60>>, <<20, 67, 3, 55>>,
      <<23, 69, 5, 60>>, <<28, 64, 4, 55>>, <<32, 60, 2, 50>>,
      <<34, 62, 2, 50>>, <<36, 67, 4, 55>>, <<40, 69, 6, 60>>,
      <<46, 67, 6, 50>>>>
    [] t = 3 ->
    <<<<0, 72, 3, 60>>, <<3, 74, 2, 55>>, <<5, 72, 2, 50>>, <<7, 69, 3, 55>>,
      <<10, 67, 2, 50>>, <<12, 65, 4, 60>>, <<16, 69, 2, 55>>,
      <<18, 72, 4, 60>>, <<22, 74, 3, 55>>, <<25, 72, 2, 50>>,
      <<27, 67, 3, 55>>, <<30, 65, 2, 50>>, <<32, 72, 4, 60>>,
      <<36, 69, 2, 55>>, <<38, 67, 2, 50>>, <<40, 65, 6, 60>>,
      <<46, 67, 2, 50>>, <<48, 69, 4, 55>>, <<52, 65, 4, 50>>>>

bass_notes(t) ==
    CASE t = 1 ->
    <<<<0, 48, 4, 45>>, <<8, 43, 4, 40>>, <<16, 48, 4, 45>>,
      <<24, 45, 4, 40>>, <<32, 48, 4, 45>>, <<40, 43, 4, 40>>>>
    [] t = 2 ->
    <<<<0, 45, 6, 45>>, <<8, 43, 4, 40>>, <<16, 45, 6, 45>>,
      <<24, 40, 4, 40>>, <<32, 45, 6, 45>>, <<40, 43, 4, 40>>>>
    [] t = 3 ->
    <<<<0, 53, 4, 45>>, <<8, 55, 4, 40>>, <<16, 53, 4, 45>>,
      <<24, 57, 4, 40>>, <<32, 53, 4, 45>>, <<40, 55, 4, 40>>,
      <<48, 53, 8, 45>>>>

\* n = int(duration * SAMPLE_RATE), duration in whole seconds
TrackLen(duration) == duration * SAMPLE_RATE

\* Python's round(a / b) for a >= 0, b > 0: to the nearest integer, a tie to
\* the even one
RoundDiv(a, b) ==
    LET f == a \div b
        r == 2 * (a % b)
    IN  IF r < b THEN f
        ELSE IF r > b THEN f + 1
        ELSE IF f % 2 = 0 THEN f ELSE f + 1

\* NoteStart with round() for int()
NoteStartRounded(t, q) == RoundDiv(q * (SAMPLE_RATE * 60), 4 * bpm(t))

\* HalfBeatStart with the division by 2 left out
HalfBeatStartWhole(t, beat_idx_h) == (beat_idx_h * (SAMPLE_RATE * 60)) \div bpm(t)

\* start = int(beat_off * beat) with beat = SAMPLE_RATE * 60.0 / bpm and
\* beat_off = q / 4
NoteStart(t, q) == (q * (SAMPLE_RATE * 60)) \div (4 * bpm(t))

\* start = int(beat_idx * beat)
BeatStart(t, beat_idx) == (beat_idx * (SAMPLE_RATE * 60)) \div bpm(t)

\* start = int(beat_idx_h * beat / 2)
HalfBeatStart(t, beat_idx_h) == (beat_idx_h * (SAMPLE_RATE * 60)) \div (2 * bpm(t))

\* len(gen_piano_note(freq, dur_s, amp)) with dur_s = dur_beats * 60.0 / bpm
\* and dur_beats = dq / 4
ToneLen(t, dq) == (dq * 60 * SAMPLE_RATE) \div (4 * bpm(t))

\* len(gen_kick()) = int(0.25 * SAMPLE_RATE)
KickLen == (25 * SAMPLE_RATE) \div 100
\* len(gen_snare()) = int(0.15 * SAMPLE_RATE)
SnareLen == (15 * SAMPLE_RATE) \div 100
\* len(gen_hihat()) = int(0.08 * SAMPLE_RATE), len(gen_hihat(open_hat=True))
\* = int(0.15 * SAMPLE_RATE)
HihatLen(open_hat) ==
    IF open_hat THEN (15 * SAMPLE_RATE) \div 100 ELSE (8 * SAMPLE_RATE) \div 100

\* range(int(duration * bpm / 60)) and range(int(duration * bpm / 30))
BeatCount(t, duration) == (duration * bpm(t)) \div 60
HalfBeatCount(t, duration) == (duration * bpm(t)) \div 30

\* KickFires with track 03 given the pattern of track 02
KickFiresHalfTime(t, beat_idx) ==
    CASE t = 1 -> beat_idx % 2 = 0
      [] t = 2 -> beat_idx % 4 \in {0, 2}
      [] t = 3 -> beat_idx % 4 \in {0, 2}

KickFires(t, beat_idx) ==
    CASE t = 1 -> beat_idx % 2 = 0
      [] t = 2 -> beat_idx % 4 \in {0, 2}
      [] t = 3 -> beat_idx % 4 \in {0, 3}
KickAmp(t) == CASE t = 1 -> 60 [] t = 2 -> 65 [] t = 3 -> 60

SnareFires(t, beat_idx) ==
    CASE t = 1 -> beat_idx % 2 = 1
      [] t = 2 -> beat_idx % 4 = 2
      [] t = 3 -> beat_idx % 4 \in {1, 2}
SnareAmp(t) == CASE t = 1 -> 50 [] t = 2 -> 55 [] t = 3 -> 45

\* the hi-hat loop: tracks 01 and 03 run over half beats and always fire,
\* track 02 runs over beats and fires the open hat on the odd ones
HatCount(t, duration) ==
    IF t = 2 THEN BeatCount(t, duration) ELSE HalfBeatCount(t, duration)
HatFires(t, idx) == IF t = 2 THEN idx % 2 = 1 ELSE TRUE
HatStart(t, idx) == IF t = 2 THEN BeatStart(t, idx) ELSE HalfBeatStart(t, idx)
HatQuarter(t, idx) == IF t = 2 THEN 4 * idx ELSE 2 * idx
HatAmp(t, idx) ==
    CASE t = 1 -> IF idx % 2 = 0 THEN 35 ELSE 20
      [] t = 2 -> 30
      [] t = 3 -> IF idx % 4 \in {0, 2} THEN 30 ELSE 18

Overlaid(role, q, start, len, amp) ==
    [role |-> role, q |-> q, start |-> start, len |-> len, amp |-> amp]

SeqInit ==
    /\ ov = OvIdle
    /\ TimelineIdle
    /\ RcIdle
    /\ PrimIdle
    /\ \E t \in Tracks, duration \in 0 .. MaxDuration :
          seq = [pc |-> "call", track |-> t, duration |-> duration, n |-> 0,
                 i |-> 0, overlays |-> <<>>, chain |-> <<>>]

\* n = int(duration * SAMPLE_RATE); result = [0.0] * n
TrackBegin ==
    /\ seq.pc = "call"
    /\ seq' = [seq EXCEPT !.pc = "melody", !.n = TrackLen(seq.duration)]
    /\ UNCHANGED <<ov, tlVars, rc, primVars>>

\* one iteration of `for (beat_off, note, dur_beats, amp) in melody_notes`
MelodyNote ==
    /\ seq.pc = "melody"
    /\ seq.i < Len(melody_notes(seq.track))
    /\ LET e == melody_notes(seq.track)[seq.i + 1]
       IN  seq' = [seq EXCEPT !.i = @ + 1,
                     !.overlays = Append(@, Overlaid("melody", e[1],
                                    NoteStart(seq.track, e[1]),
                                    ToneLen(seq.track, e[3]), e[4]))]
    /\ UNCHANGED <<ov, tlVars, rc, primVars>>

\* one iteration of `for (beat_off, note, dur_beats, amp) in bass_notes`
BassNote ==
    /\ seq.pc = "bass"
    /\ seq.i < Len(bass_notes(seq.track))
    /\ LET e == bass_notes(seq.track)[seq.i + 1]
       IN  seq' = [seq EXCEPT !.i = @ + 1,
                     !.overlays = Append(@, Overlaid("bass", e[1],
                                    NoteStart(seq.track, e[1]),
                                    ToneLen(seq.track, e[3]), e[4]))]
    /\ UNCHANGED <<ov, tlVars, rc, primVars>>

\* one iteration of the kick loop
KickBeat ==
    /\ seq.pc = "kick"
    /\ seq.i < BeatCount(seq.track, seq.duration)
    /\ seq' = [seq EXCEPT !.i = @ + 1,
                 !.overlays = IF KickFires(seq.track, seq.i)
                              THEN Append(@, Overlaid("kick", 4 * seq.i,
                                     BeatStart(seq.track, seq.i), KickLen,
                                     KickAmp(seq.track)))
                              ELSE @]
    /\ UNCHANGED <<ov, tlVars, rc, primVars>>

\* one iteration of the snare loop
SnareBeat ==
    /\ seq.pc = "snare"
    /\ seq.i < BeatCount(seq.track, seq.duration)
    /\ seq' = [seq EXCEPT !.i = @ + 1,
                 !.overlays = IF SnareFires(seq.track, seq.i)
                              THEN Append(@, Overlaid("snare", 4 * seq.i,
                                     BeatStart(seq.track, seq.i), SnareLen,
                                     SnareAmp(seq.track)))
                              ELSE @]
    /\ UNCHANGED <<ov, tlVars, rc, primVars>>

\* one iteration of the hi-hat loop
HatBeat ==
    /\ seq.pc = "hihat"
    /\ seq.i < HatCount(seq.track, seq.duration)
    /\ seq' = [seq EXCEPT !.i = @ + 1,
                 !.overlays = IF HatFires(seq.track, seq.i)
                              THEN Append(@, Overlaid("hihat",
                                     HatQuarter(seq.track, seq.i),
                                     HatStart(seq.track, seq.i),
                                     HihatLen(seq.track = 2),
                                     HatAmp(seq.track, seq.i)))
                              ELSE @]
    /\ UNCHANGED <<ov, tlVars, rc, primVars>>

\* the number of iterations of the loop of stage pc
LoopCount(pc, t, duration) ==
    CASE pc = "melody" -> Len(melody_notes(t))
      [] pc = "bass"   -> Len(bass_notes(t))
      [] pc = "kick"   -> BeatCount(t, duration)
      [] pc = "snare"  -> BeatCount(t, duration)
      [] pc = "hihat"  -> HatCount(t, duration)

\* AfterLoop with the lo-fi coloration left out
AfterLoopNoLofi(pc) ==
    CASE pc = "melody" -> "bass"
      [] pc = "bass"   -> "kick"
      [] pc = "kick"   -> "snare"
      [] pc = "snare"  -> "hihat"
      [] pc = "hihat"  -> "fade"

\* the statement after the loop of stage pc
AfterLoop(pc) ==
    CASE pc = "melody" -> "bass"
      [] pc = "bass"   -> "kick"
      [] pc = "kick"   -> "snare"
      [] pc = "snare"  -> "hihat"
      [] pc = "hihat"  -> "lofi"

\* a loop runs out and the next statement is reached
LoopExit ==
    /\ seq.pc \in {"melody", "bass", "kick", "snare", "hihat"}
    /\ seq.i = LoopCount(seq.pc, seq.track, seq.duration)
    /\ seq' = [seq EXCEPT !.pc = AfterLoop(seq.pc), !.i = 0]
    /\ UNCHANGED <<ov, tlVars, rc, primVars>>

\* result = apply_lofi_filter(result): lowpass_filter, then tanh
LofiFilter ==
    /\ seq.pc = "lofi"
    /\ seq' = [seq EXCEPT !.pc = "fade",
                          !.chain = @ \o <<"lowpass", "tanh">>]
    /\ UNCHANGED <<ov, tlVars, rc, primVars>>

\* whether apply_envelope raises IndexError on a buffer of n samples: the
\* attack loop subscripts 0 .. attack_samples-1, the release loop
\* n-release_samples .. n-1
EnvelopeRaises(n, attack_samples, release_samples) ==
    \/ \E i \in 0 .. attack_samples - 1 : PyIndex(n, i) = 0
    \/ \E i \in 0 .. release_samples - 1 : PyIndex(n, n - release_samples + i) = 0

\* apply_envelope(result, attack=0.1, release=0.1)
Fade ==
    /\ seq.pc = "fade"
    /\ seq' = IF EnvelopeRaises(seq.n, SAMPLE_RATE \div 10, SAMPLE_RATE \div 10)
              THEN [seq EXCEPT !.pc = "raised"]
              ELSE [seq EXCEPT !.pc = "normalize",
                               !.chain = Append(@, "envelope")]
    /\ UNCHANGED <<ov, tlVars, rc, primVars>>

\* return normalize(..., peak=0.80): max() of an empty buffer raises
NormalizeTrack ==
    /\ seq.pc = "normalize"
    /\ seq' = IF seq.n = 0
              THEN [seq EXCEPT !.pc = "raised"]
              ELSE [seq EXCEPT !.pc = "done",
                               !.chain = Append(@, "normalize")]
    /\ UNCHANGED <<ov, tlVars, rc, primVars>>

SeqNext ==
    \/ TrackBegin
    \/ MelodyNote
    \/ BassNote
    \/ KickBeat
    \/ SnareBeat
    \/ HatBeat
    \/ LoopExit
    \/ LofiFilter
    \/ Fade
    \/ NormalizeTrack

SpecSeq == SeqInit /\ [][SeqNext]_vars

\* the overlays made so far
Overlays == {seq.overlays[k] : k \in 1 .. Len(seq.overlays)}

----------------------------------------------------------------------------
(* The length of the buffer each recipe returns.  A duration is a whole    *)
(* number of milliseconds; a buffer is held as its length, and each        *)
(* primitive as what it does to the length: the filters, white_noise, the  *)
(* per-sample loops and overlay_samples keep it, apply_envelope and        *)
(* normalize keep it or raise.                                             *)

Built(n) == [len |-> n, ok |-> TRUE]
Failed == [len |-> 0, ok |-> FALSE]

\* int(seconds * SAMPLE_RATE) with seconds = ms / 1000, rounded
IntSamplesRounded(ms) == RoundDiv(ms * SAMPLE_RATE, 1000)

\* int(seconds * SAMPLE_RATE) with seconds = ms / 1000.  For every whole
\* number of milliseconds up to 349 the floating-point product truncates
\* to the exact quotient computed here (at 350 ms it is
\* 15434.999999999998 and truncates to 15434).
IntSamples(ms) == (ms * SAMPLE_RATE) \div 1000

\* apply_envelope(samples, attack, release) on a built buffer
EnvelopeLen(b, attack_ms, release_ms) ==
    IF ~b.ok THEN Failed
    ELSE IF EnvelopeRaises(b.len, IntSamples(attack_ms), IntSamples(release_ms))
         THEN Failed
         ELSE Built(b.len)

\* normalize(samples, peak) on a built buffer: max() raises ValueError on an
\* empty one
NormalizeLen(b) ==
    IF ~b.ok THEN Failed
    ELSE IF b.len = 0 THEN Failed ELSE Built(b.len)

Engines == {"gen_biplane_engine", "gen_prop_engine", "gen_bomber_engine",
            "gen_jet_engine", "gen_rocket_engine", "gen_wind"}
MusicTracks == {"gen_lofi_track_01", "gen_lofi_track_02", "gen_lofi_track_03"}
Sfx == {"gen_clue_pop", "gen_landing_success", "gen_coin_collect",
        "gen_ui_click", "gen_altitude_change", "gen_boost_start"}
Instruments == {"gen_piano_note", "gen_kick", "gen_snare", "gen_hihat"}
Recipes == Engines \cup MusicTracks \cup Sfx \cup Instruments

\* the attack and release time of each engine recipe, in milliseconds
EngineFadeMs(recipe) ==
    CASE recipe = "gen_biplane_engine" -> 50
      [] recipe = "gen_prop_engine"    -> 50
      [] recipe = "gen_bomber_engine"  -> 80
      [] recipe = "gen_jet_engine"     -> 60
      [] recipe = "gen_rocket_engine"  -> 40
      [] recipe = "gen_wind"           -> 150

\* the engine drones and the wind: n samples, normalize(apply_envelope(..))
EngineOutcome(recipe, ms) ==
    NormalizeLen(EnvelopeLen(Built(IntSamples(ms)),
                             EngineFadeMs(recipe), EngineFadeMs(recipe)))

\* the music tracks: [0.0] * n, the overlays, apply_lofi_filter,
\* normalize(apply_envelope(result, attack=0.1, release=0.1))
TrackOutcome(ms) ==
    NormalizeLen(EnvelopeLen(Built(IntSamples(ms)), 100, 100))

\* the sound effects: n samples, normalize(samples)
SfxOutcome(ms) == NormalizeLen(Built(IntSamples(ms)))

\* gen_piano_note, gen_kick, gen_snare: n samples returned as they are;
\* gen_hihat: n = int(duration * SAMPLE_RATE if not open_hat else 0.15 *
\* SAMPLE_RATE)
InstrumentOutcome(recipe, open_hat, ms) ==
    IF recipe = "gen_hihat" /\ open_hat
    THEN Built(IntSamples(150))
    ELSE Built(IntSamples(ms))

RecipeOutcome(recipe, open_hat, ms) ==
    CASE recipe \in Engines     -> EngineOutcome(recipe, ms)
      [] recipe \in MusicTracks -> TrackOutcome(ms)
      [] recipe \in Sfx         -> SfxOutcome(ms)
      [] recipe \in Instruments -> InstrumentOutcome(recipe, open_hat, ms)

RecipeInit ==
    /\ ov = OvIdle
    /\ TimelineIdle
    /\ SeqIdle
    /\ PrimIdle
    /\ \E recipe \in Recipes, open_hat \in BOOLEAN, ms \in 0 .. MaxMs :
          /\ open_hat => recipe = "gen_hihat"
          /\ rc = [pc |-> "call", recipe |-> recipe, open_hat |-> open_hat,
                   duration |-> ms, out |-> Failed]

RecipeCall ==
    /\ rc.pc = "call"
    /\ rc' = [rc EXCEPT !.pc = "done",
                        !.out = RecipeOutcome(rc.recipe, rc.open_hat, rc.duration)]
    /\ UNCHANGED <<ov, tlVars, seq, primVars>>

SpecRecipe == RecipeInit /\ [][RecipeCall]_vars

FadeMs(recipe) ==
    IF recipe \in Engines THEN EngineFadeMs(recipe)
    ELSE IF recipe \in MusicTracks THEN 100 ELSE 0

----------------------------------------------------------------------------
(* Exact rational arithmetic for the primitives that scale samples.  A     *)
(* rational is a pair <<numerator, denominator>> in lowest terms with a    *)
(* positive denominator.                                                   *)

Abs(x) == IF x < 0 THEN -x ELSE x

RECURSIVE GCD(_, _)
GCD(a, b) == IF b = 0 THEN a ELSE GCD(b, a % b)

Rat(n, d) == LET g == GCD(Abs(n), d) IN <<n \div g, d \div g>>

Zero == <<0, 1>>
One == <<1, 1>>

RAdd(a, b) ==
    LET g == GCD(a[2], b[2])
    IN  Rat(a[1] * (b[2] \div g) + b[1] * (a[2] \div g), (a[2] \div g) * b[2])

RMul(a, b) ==
    IF a[1] = 0 \/ b[1] = 0 THEN Zero
    ELSE LET g1 == GCD(Abs(a[1]), b[2])
             g2 == GCD(Abs(b[1]), a[2])
         IN  <<(a[1] \div g1) * (b[1] \div g2), (a[2] \div g2) * (b[2] \div g1)>>

\* a / b for b # 0
RDiv(a, b) ==
    RMul(a, IF b[1] > 0 THEN <<b[2], b[1]>> ELSE <<-b[2], -b[1]>>)

RAbs(a) == <<Abs(a[1]), a[2]>>

RLess(a, b) ==
    LET g == GCD(a[2], b[2])
    IN  a[1] * (b[2] \div g) < b[1] * (a[2] \div g)

RMax(a, b) == IF RLess(a, b) THEN b ELSE a

----------------------------------------------------------------------------
(* mix *)

\* max(len(sl) for sl in sample_lists), for a non-empty sequence of lists
RECURSIVE MaxLen(_)
MaxLen(sample_lists) ==
    IF Len(sample_lists) = 1 THEN Len(sample_lists[1])
    ELSE LET rest == MaxLen(Tail(sample_lists))
         IN  IF Len(sample_lists[1]) > rest THEN Len(sample_lists[1]) ELSE rest

\* [1.0 / len(sample_lists)] * len(sample_lists)
UniformWeights(count) == [k \in 1 .. count |-> Rat(1, count)]

\* `for i in range(len(sl)): result[i] += sl[i] * w`
MixInto(res, sl, w) ==
    [p \in 1 .. Len(res) |->
        IF p <= Len(sl) THEN RAdd(res[p], RMul(sl[p], w)) ELSE res[p]]

\* the loop over zip(sample_lists, weights) from pair k on
RECURSIVE MixLoop(_, _, _, _)
MixLoop(res, sample_lists, weights, k) ==
    IF k > Len(sample_lists) \/ k > Len(weights) THEN res
    ELSE MixLoop(MixInto(res, sample_lists[k], weights[k]),
                 sample_lists, weights, k + 1)

\* mix with the result as long as the first list, not the longest
mix_first_len(sample_lists, weights) ==
    IF Len(sample_lists) = 0 THEN Raised
    ELSE LET w == IF weights.given THEN weights.list
                  ELSE UniformWeights(Len(sample_lists))
             n == Len(sample_lists[1])
             short == [k \in 1 .. Len(sample_lists) |->
                          SubSeq(sample_lists[k], 1,
                                 IF Len(sample_lists[k]) < n
                                 THEN Len(sample_lists[k]) ELSE n)]
         IN  Returned(MixLoop([p \in 1 .. n |-> Zero], short, w, 1))

\* weights is a record: given = FALSE stands for weights=None
mix(sample_lists, weights) ==
    IF Len(sample_lists) = 0 THEN Raised
    ELSE LET w == IF weights.given THEN weights.list
                  ELSE UniformWeights(Len(sample_lists))
             n == MaxLen(sample_lists)
         IN  Returned(MixLoop([p \in 1 .. n |-> Zero], sample_lists, w, 1))

\* the values and weights mix is called with
MixVals == {<<1, 1>>, <<-1, 2>>}
MixWeights == {<<1, 1>>, <<1, 2>>}

MixInit ==
    /\ ov = OvIdle
    /\ TimelineIdle
    /\ SeqIdle
    /\ RcIdle
    /\ NzIdle
    /\ ProcIdle
    /\ CallIdle
    /\ \E sample_lists \in SeqsUpTo(SeqsUpTo(MixVals, MaxMixLen), MaxMixBufs),
          given \in BOOLEAN,
          list \in SeqsUpTo(MixWeights, MaxMixBufs) :
          /\ ~given => list = <<>>
          /\ mx = [pc |-> "call", sample_lists |-> sample_lists,
                   weights |-> [given |-> given, list |-> list],
                   out |-> Raised]

MixCall ==
    /\ mx.pc = "call"
    /\ mx' = [mx EXCEPT !.pc = "done",
                        !.out = mix(mx.sample_lists, mx.weights)]
    /\ UNCHANGED <<ov, tlVars, seq, rc, nz, proc, callVars>>

SpecMix == MixInit /\ [][MixCall]_vars

\* the weight the claim gives buffer k
ClaimedWeight(k) ==
    IF mx.weights.given THEN mx.weights.list[k]
    ELSE Rat(1, Len(mx.sample_lists))

\* the sum over buffers 1..k of weight * sample at position p, a buffer
\* counting 0 beyond its length
RECURSIVE WeightedSum(_, _)
WeightedSum(k, p) ==
    IF k = 0 THEN Zero
    ELSE RAdd(WeightedSum(k - 1, p),
              IF p <= Len(mx.sample_lists[k])
              THEN RMul(ClaimedWeight(k), mx.sample_lists[k][p]) ELSE Zero)

\* C8: for one or more buffers (one weight per buffer, or none given) the
\* result is as long as the longest input, sample i is the sum of
\* weight_k * buffer_k[i] with 0 beyond a buffer's length, omitted weights
\* are 1/count, and one buffer mixed with weights [1.0] comes back equal.
C8_MixWeightedSum ==
    (/\ mx.pc = "done"
     /\ Len(mx.sample_lists) >= 1
     /\ mx.weights.given => Len(mx.weights.list) >= Len(mx.sample_lists))
    => /\ mx.out.ok
       /\ \A k \in 1 .. Len(mx.sample_lists) :
             Len(mx.sample_lists[k]) <= Len(mx.out.buf)
       /\ \E k \in 1 .. Len(mx.sample_lists) :
             Len(mx.sample_lists[k]) = Len(mx.out.buf)
       /\ \A p \in 1 .. Len(mx.out.buf) :
             mx.out.buf[p] = WeightedSum(Len(mx.sample_lists), p)
       /\ (Len(mx.sample_lists) = 1 /\ mx.weights.given
           /\ mx.weights.list[1] = One)
          => mx.out.buf = mx.sample_lists[1]

\* two buffers of different lengths mixed with the default weights
C8_Witness ==
    /\ mx.pc = "done"
    /\ ~mx.weights.given
    /\ Len(mx.sample_lists) = 2
    /\ Len(mx.sample_lists[1]) < Len(mx.sample_lists[2])
    /\ Len(mx.sample_lists[1]) > 0
    /\ mx.out.ok
    /\ mx.out.buf[1] # Zero

\* C9 as claimed: mix with no input buffer returns an empty buffer and does
\* not raise
C9_MixNothing ==
    (mx.pc = "done" /\ Len(mx.sample_lists) = 0) => mx.out = Returned(<<>>)

----------------------------------------------------------------------------
(* normalize *)

\* the threshold 1e-9 below which normalize returns its argument
Epsilon == <<1, 1000000000>>

\* max(abs(s) for s in samples), for a non-empty buffer
RECURSIVE MaxAbs(_)
MaxAbs(samples) ==
    IF Len(samples) = 1 THEN RAbs(samples[1])
    ELSE RMax(RAbs(samples[1]), MaxAbs(Tail(samples)))

\* max(s for s in samples), for a non-empty buffer
RECURSIVE MaxSigned(_)
MaxSigned(samples) ==
    IF Len(samples) = 1 THEN samples[1]
    ELSE RMax(samples[1], MaxSigned(Tail(samples)))

\* normalize with `max(s for s in samples)` for `max(abs(s) ...)`
normalize_signed(samples, peak) ==
    IF Len(samples) = 0 THEN Raised
    ELSE LET max_val == MaxSigned(samples)
         IN  IF RLess(max_val, Epsilon) THEN Returned(samples)
             ELSE LET scale == RDiv(peak, max_val)
                  IN  Returned([p \in 1 .. Len(samples) |->
                                   RMul(samples[p], scale)])

\* normalize returning silence for a buffer under the threshold
normalize_silence(samples, peak) ==
    IF Len(samples) = 0 THEN Raised
    ELSE LET max_val == MaxAbs(samples)
         IN  IF RLess(max_val, Epsilon)
             THEN Returned([p \in 1 .. Len(samples) |-> Zero])
             ELSE LET scale == RDiv(peak, max_val)
                  IN  Returned([p \in 1 .. Len(samples) |->
                                   RMul(samples[p], scale)])

normalize(samples, peak) ==
    IF Len(samples) = 0 THEN Raised
    ELSE LET max_val == MaxAbs(samples)
         IN  IF RLess(max_val, Epsilon) THEN Returned(samples)
             ELSE LET scale == RDiv(peak, max_val)
                  IN  Returned([p \in 1 .. Len(samples) |->
                                   RMul(samples[p], scale)])

\* the call gets as far as `scale = peak / max_val`
NormalizeDivides(samples) ==
    /\ Len(samples) > 0
    /\ ~RLess(MaxAbs(samples), Epsilon)

\* samples of ordinary size, and samples around the threshold 1e-9
NormalVals == {<<0, 1>>, <<-1, 1>>, <<1, 2>>}
TinyVals == {<<0, 1>>, <<1, 2000000000>>, <<-1, 1000000000>>,
             <<3, 2000000000>>}
\* the default peak 0.85, the 0.80 of the tracks, and 1
Peaks == {<<17, 20>>, <<4, 5>>, <<1, 1>>}

NormInit ==
    /\ ov = OvIdle
    /\ TimelineIdle
    /\ SeqIdle
    /\ RcIdle
    /\ MxIdle
    /\ ProcIdle
    /\ CallIdle
    /\ \E samples \in SeqsUpTo(NormalVals, MaxNormLen)
                      \cup SeqsUpTo(TinyVals, MaxNormLen),
          peak \in Peaks :
          nz = [pc |-> "call", samples |-> samples, peak |-> peak,
                out |-> Raised, divided |-> FALSE]

NormCall ==
    /\ nz.pc = "call"
    /\ nz' = [nz EXCEPT !.pc = "done",
                        !.out = normalize(nz.samples, nz.peak),
                        !.divided = NormalizeDivides(nz.samples)]
    /\ UNCHANGED <<ov, tlVars, seq, rc, mx, proc, callVars>>

SpecNorm == NormInit /\ [][NormCall]_vars

\* m is the largest absolute sample of the non-empty buffer buf
IsMaxAbs(m, buf) ==
    /\ \E p \in 1 .. Len(buf) : RAbs(buf[p]) = m
    /\ \A p \in 1 .. Len(buf) : ~RLess(m, RAbs(buf[p]))

Sign(a) == IF a[1] > 0 THEN 1 ELSE IF a[1] < 0 THEN -1 ELSE 0

\* C10: for a buffer whose largest absolute sample max_abs is at least 1e-9
\* and a positive peak P, normalize returns a buffer of the same length,
\* each sample the input times P/max_abs (signs and zeros kept), so the
\* largest absolute output sample is P.
C10_NormalizePeak ==
    nz.pc = "done" =>
        \A q \in 1 .. Len(nz.samples) :
            LET max_abs == RAbs(nz.samples[q])
            IN  (IsMaxAbs(max_abs, nz.samples) /\ ~RLess(max_abs, Epsilon))
                => /\ nz.out.ok
                   /\ Len(nz.out.buf) = Len(nz.samples)
                   /\ \A p \in 1 .. Len(nz.samples) :
                         /\ RDiv(nz.out.buf[p], nz.peak)
                               = RDiv(nz.samples[p], max_abs)
                         /\ Sign(nz.out.buf[p]) = Sign(nz.samples[p])
                   /\ IsMaxAbs(nz.peak, nz.out.buf)

\* a buffer whose largest sample in absolute value is negative, beside a
\* smaller positive one and rescaled
C10_Witness ==
    /\ nz.pc = "done"
    /\ nz.out.ok
    /\ Len(nz.samples) >= 2
    /\ \E p, q \in 1 .. Len(nz.samples) :
          /\ nz.samples[p][1] < 0
          /\ nz.samples[q][1] > 0
          /\ IsMaxAbs(RAbs(nz.samples[p]), nz.samples)
          /\ RLess(nz.samples[q], RAbs(nz.samples[p]))
          /\ ~RLess(RAbs(nz.samples[p]), Epsilon)
          /\ nz.out.buf[p] = <<-nz.peak[1], nz.peak[2]>>

\* C11: for a non-empty buffer whose largest absolute sample is below 1e-9
\* (the all-zero buffer included), normalize returns without raising, every
\* sample is the input's, and the division by max_val is not reached.
C11_NearSilentUnchanged ==
    (/\ nz.pc = "done"
     /\ Len(nz.samples) > 0
     /\ \A p \in 1 .. Len(nz.samples) : RLess(RAbs(nz.samples[p]), Epsilon))
    => /\ nz.out = Returned(nz.samples)
       /\ ~nz.divided

\* a buffer with a non-zero sample, all of it under the threshold, returned
C11_Witness ==
    /\ nz.pc = "done"
    /\ Len(nz.samples) >= 2
    /\ \A p \in 1 .. Len(nz.samples) : RLess(RAbs(nz.samples[p]), Epsilon)
    /\ \E p \in 1 .. Len(nz.samples) : nz.samples[p][1] # 0
    /\ nz.out.ok

\* ---------------------------------------------------------------------
\* Noise, filters and recipes in one process.
\*
\* `random.Random(seed)` is a generator private to the call that constructs
\* it; module `random` also keeps one generator for the whole process, the
\* one `random.uniform` and `random.seed` act on.  Generators are modelled
\* by a full-period congruential generator over RngModulus states: seeding
\* fixes the state, every draw steps it, and `uniform(-1, 1)` is
\* a + (b - a) * random() with random() = state / RngModulus.  Every
\* operation takes the state g of the process-wide generator and returns
\* it with its outcome, so that reading or advancing it would show.
\* ---------------------------------------------------------------------

RngModulus == 16

\* random.Random(seed)
RandomSeeded(seed) == seed % RngModulus

RngStep(state) == (5 * state + 3) % RngModulus

\* rng.uniform(-1.0, 1.0) on the state a draw has just stepped to
Uniform(state) == Rat(2 * state - RngModulus, RngModulus)

\* [rng.uniform(-1.0, 1.0) for _ in range(count)]
RECURSIVE Draws(_, _)
Draws(state, count) ==
    IF count <= 0 THEN <<>>
    ELSE LET next == RngStep(state)
         IN  <<Uniform(next)>> \o Draws(next, count - 1)

\* the state of a generator after count draws
RECURSIVE Advance(_, _)
Advance(state, count) ==
    IF count <= 0 THEN state ELSE Advance(RngStep(state), count - 1)

\* white_noise drawing from the process-wide generator instead of its own
white_noise_global(n_samples, seed, g) ==
    [out |-> Returned(Draws(g, n_samples)), g |-> Advance(g, n_samples)]

white_noise(n_samples, seed, g) ==
    LET rng == RandomSeeded(seed)
    IN  [out |-> Returned(Draws(rng, n_samples)), g |-> g]

RNeg(a) == <<-a[1], a[2]>>
RSub(a, b) == RAdd(a, RNeg(b))

\* alpha = dt / (rc + dt) with rc = 1 / (2 pi cutoff_hz) and dt = 1 /
\* SAMPLE_RATE, that is 2 pi f / (SAMPLE_RATE + 2 pi f); pi is taken as
\* 355/113 and the coefficient is held to the nearest eighth inside (0, 1)
LowpassAlpha(cutoff_hz) ==
    LET eighths == RoundDiv(8 * 710 * cutoff_hz,
                            113 * SAMPLE_RATE + 710 * cutoff_hz)
    IN  Rat(IF eighths < 1 THEN 1 ELSE IF eighths > 7 THEN 7 ELSE eighths, 8)

\* alpha = rc / (rc + dt) = 1 - dt / (rc + dt)
HighpassAlpha(cutoff_hz) == RSub(One, LowpassAlpha(cutoff_hz))

RECURSIVE LowpassLoop(_, _, _, _)
LowpassLoop(samples, alpha, prev, i) ==
    IF i > Len(samples) THEN <<>>
    ELSE LET y == RAdd(prev, RMul(alpha, RSub(samples[i], prev)))
         IN  <<y>> \o LowpassLoop(samples, alpha, y, i + 1)

\* y = prev + alpha * s: the input accumulated, prev never subtracted
RECURSIVE IntegratorLoop(_, _, _, _)
IntegratorLoop(samples, alpha, prev, i) ==
    IF i > Len(samples) THEN <<>>
    ELSE LET y == RAdd(prev, RMul(alpha, samples[i]))
         IN  <<y>> \o IntegratorLoop(samples, alpha, y, i + 1)

lowpass_filter_integrator(samples, cutoff_hz) ==
    IntegratorLoop(samples, LowpassAlpha(cutoff_hz), Zero, 1)

lowpass_filter(samples, cutoff_hz) ==
    LowpassLoop(samples, LowpassAlpha(cutoff_hz), Zero, 1)

RECURSIVE HighpassLoop(_, _, _, _, _)
HighpassLoop(samples, alpha, prev_x, prev_y, i) ==
    IF i > Len(samples) THEN <<>>
    ELSE LET y == RMul(alpha, RSub(RAdd(prev_y, samples[i]), prev_x))
         IN  <<y>> \o HighpassLoop(samples, alpha, samples[i], y, i + 1)

\* highpass_filter starting with prev_x = 1 in place of 0
highpass_filter_primed(samples, cutoff_hz) ==
    HighpassLoop(samples, HighpassAlpha(cutoff_hz), One, Zero, 1)

highpass_filter(samples, cutoff_hz) ==
    HighpassLoop(samples, HighpassAlpha(cutoff_hz), Zero, Zero, 1)

\* the band edges exchanged: lowpass at low_hz, highpass at high_hz
bandpass_filter_exchanged(samples, low_hz, high_hz) ==
    highpass_filter(lowpass_filter(samples, low_hz), high_hz)

bandpass_filter(samples, low_hz, high_hz) ==
    highpass_filter(lowpass_filter(samples, high_hz), low_hz)

\* Recipes are called with a duration of a whole number of sample periods,
\* duration = k / SAMPLE_RATE, for which int(duration * SAMPLE_RATE) = k.
\* A sample that the code computes with exp or sin is held as the tuple of
\* the values it is computed from, the time index i of the loop last.

\* closed hi-hat: s * exp(-t * 20) * 0.4 over the band-passed noise
gen_hihat(duration, g) ==
    LET n     == duration
        noise == white_noise(n, 20, g)
        hp    == bandpass_filter(noise.out.buf, 6000, 16000)
    IN  [out |-> Returned([p \in 1 .. Len(hp) |-> <<hp[p], p - 1>>]),
         g   |-> noise.g]

\* tone_phase, in turns, on entry to each of count iterations
RECURSIVE TonePhases(_, _)
TonePhases(tone_phase, count) ==
    IF count <= 0 THEN <<>>
    ELSE <<tone_phase>>
         \o TonePhases(RAdd(tone_phase, Rat(200, SAMPLE_RATE)), count - 1)

\* (bp[i] * 0.7 + sin(tone_phase) * 0.3) * exp(-t * 25) * 0.6
gen_snare(duration, g) ==
    LET n      == duration
        noise  == white_noise(n, 25, g)
        bp     == bandpass_filter(noise.out.buf, 800, 5000)
        phases == TonePhases(Zero, n)
    IN  [out |-> Returned([p \in 1 .. n |-> <<bp[p], phases[p], p - 1>>]),
         g   |-> noise.g]

\* The engine's phase at iteration i is fixed by the draws of the
\* iterations before it; the rumble is low-passed noise.  The fades of
\* 0.05 s then raise on a buffer shorter than 2205 samples.
BiplaneBody(n, draws, noise) ==
    LET rumble == lowpass_filter(noise, 200)
        terms == [p \in 1 .. n |-> <<SubSeq(draws, 1, p - 1), rumble[p], p - 1>>]
    IN  IF EnvelopeRaises(n, IntSamples(50), IntSamples(50))
        THEN Raised
        ELSE Returned(terms)

\* gen_biplane_engine with random.uniform in place of rng.uniform
gen_biplane_engine_global(duration, g) ==
    LET n     == duration
        noise == white_noise(n, 2, Advance(g, n))
    IN  [out |-> BiplaneBody(n, Draws(g, n), noise.out.buf), g |-> noise.g]

gen_biplane_engine(duration, g) ==
    LET n     == duration
        rng   == RandomSeeded(1)
        noise == white_noise(n, 2, g)
    IN  [out |-> BiplaneBody(n, Draws(rng, n), noise.out.buf), g |-> noise.g]

Seeds == {2, 20, 25, 42}

Recipe(fn, duration) == [fn |-> fn, n |-> duration, seed |-> 0]
Noise(n_samples, seed) == [fn |-> "white_noise", n |-> n_samples, seed |-> seed]

\* the calls a process makes
Calls ==
    {Noise(n, seed) : n \in 0 .. MaxNoise, seed \in Seeds}
    \cup {Recipe(fn, d) : fn \in {"gen_hihat", "gen_snare", "gen_biplane_engine"},
                          d \in 0 .. MaxNoise}

\* the outcome of a call made when the process-wide generator is in state g
RunCall(call, g) ==
    CASE call.fn = "white_noise" -> white_noise(call.n, call.seed, g)
      [] call.fn = "gen_hihat" -> gen_hihat(call.n, g)
      [] call.fn = "gen_snare" -> gen_snare(call.n, g)
      [] call.fn = "gen_biplane_engine" -> gen_biplane_engine(call.n, g)

\* A process starts with its generator in any state, as whatever ran before
\* left it.  One call is watched: its first outcome is kept to compare the
\* later ones with, and `between` records that other calls came after it.
ProcInit ==
    /\ ov = OvIdle
    /\ TimelineIdle
    /\ SeqIdle
    /\ RcIdle
    /\ MxIdle
    /\ NzIdle
    /\ CallIdle
    /\ \E g \in 0 .. RngModulus - 1, watch \in Calls :
          proc = [pc |-> "ready", g |-> g, g0 |-> g, watch |-> watch,
                  first |-> [set |-> FALSE, out |-> Raised],
                  between |-> FALSE, call |-> NoCall, out |-> Raised]

Made(call) ==
    LET r == RunCall(call, proc.g)
    IN  /\ proc.pc \in {"ready", "done"}
        /\ proc' = [proc EXCEPT
                      !.pc = "done",
                      !.g = r.g,
                      !.call = call,
                      !.out = r.out,
                      !.first = IF call = proc.watch /\ ~proc.first.set
                                THEN [set |-> TRUE, out |-> r.out] ELSE @,
                      !.between = IF call = proc.watch
                                  THEN @ ELSE proc.first.set]
        /\ UNCHANGED <<ov, tlVars, seq, rc, mx, nz, callVars>>

CallWhiteNoise(n_samples, seed) == Made(Noise(n_samples, seed))

CallHihat(duration) == Made(Recipe("gen_hihat", duration))

CallSnare(duration) == Made(Recipe("gen_snare", duration))

CallBiplane(duration) == Made(Recipe("gen_biplane_engine", duration))

ProcNext ==
    \/ \E n_samples \in 0 .. MaxNoise, seed \in Seeds :
          CallWhiteNoise(n_samples, seed)
    \/ \E duration \in 0 .. MaxNoise : CallHihat(duration)
    \/ \E duration \in 0 .. MaxNoise : CallSnare(duration)
    \/ \E duration \in 0 .. MaxNoise : CallBiplane(duration)

SpecProcess == ProcInit /\ [][ProcNext]_vars

InUnitRange(x) == ~RLess(x, RNeg(One)) /\ ~RLess(One, x)

\* C7: white_noise(n, seed) returns n values, each in [-1, 1]; it returns
\* what the first call with the same n and seed returned, whatever was
\* called in between; and for n = 0 it returns the empty buffer.
C7_WhiteNoise ==
    (proc.pc = "done" /\ proc.call.fn = "white_noise") =>
        /\ proc.out.ok
        /\ Len(proc.out.buf) = proc.call.n
        /\ \A p \in 1 .. Len(proc.out.buf) : InUnitRange(proc.out.buf[p])
        /\ (proc.call = proc.watch => proc.out = proc.first.out)
        /\ (proc.call.n = 0 => proc.out = Returned(<<>>))

\* white_noise is called a second time with the same n > 1 and seed after
\* calls of other operations, and returns values that differ
C7_Witness ==
    /\ proc.pc = "done"
    /\ proc.call = proc.watch
    /\ proc.call.fn = "white_noise"
    /\ proc.between
    /\ proc.call.n >= 2
    /\ proc.out.ok
    /\ proc.out.buf[1] # proc.out.buf[2]

\* C14 as claimed: a request whose duration yields 0 samples returns a
\* buffer, whatever the recipe, and does not raise.
C14_ZeroLengthReturns ==
    (/\ rc.pc = "done"
     /\ IntSamples(rc.duration) = 0
     /\ ~rc.open_hat)
    => rc.out.ok

----------------------------------------------------------------------------
(* apply_envelope.  attack and release are whole numbers of sample periods *)
(* (k / SAMPLE_RATE seconds), for which int(attack * SAMPLE_RATE) = k.     *)
(* `result` is updated in place, one subscript at a time: a subscript      *)
(* outside the list raises IndexError, a negative one inside it counts     *)
(* from the end.                                                           *)

\* the attack ramp reaching 1 on its last sample
AttackFactorClosed(i, attack_samples) == Rat(i + 1, attack_samples)

\* i / attack_samples
AttackFactor(i, attack_samples) == Rat(i, attack_samples)

\* (release_samples - i) / release_samples
ReleaseFactor(i, release_samples) == Rat(release_samples - i, release_samples)

\* for i in range(attack_samples): result[i] *= i / attack_samples
RECURSIVE AttackLoop(_, _, _)
AttackLoop(res, attack_samples, i) ==
    IF i >= attack_samples THEN Returned(res)
    ELSE LET pos == PyIndex(Len(res), i)
         IN  IF pos = 0 THEN Raised
             ELSE AttackLoop(
                      [res EXCEPT ![pos] = RMul(@, AttackFactor(i, attack_samples))],
                      attack_samples, i + 1)

\* for i in range(release_samples): idx = n - release_samples + i;
\*     result[idx] *= (release_samples - i) / release_samples
RECURSIVE ReleaseLoop(_, _, _)
ReleaseLoop(res, release_samples, i) ==
    IF i >= release_samples THEN Returned(res)
    ELSE LET idx == Len(res) - release_samples + i
             pos == PyIndex(Len(res), idx)
         IN  IF pos = 0 THEN Raised
             ELSE ReleaseLoop(
                      [res EXCEPT ![pos] = RMul(@, ReleaseFactor(i, release_samples))],
                      release_samples, i + 1)

apply_envelope(samples, attack, release) ==
    LET attack_samples  == attack
        release_samples == release
        attacked        == AttackLoop(samples, attack_samples, 0)
    IN  IF ~attacked.ok THEN Raised
        ELSE ReleaseLoop(attacked.buf, release_samples, 0)

EnvVals == {<<1, 1>>, <<-1, 2>>}

EnvInit ==
    /\ ov = OvIdle
    /\ TimelineIdle
    /\ SeqIdle
    /\ RcIdle
    /\ MxIdle
    /\ NzIdle
    /\ ProcIdle
    /\ FltIdle /\ BatchIdle /\ FrIdle /\ OscIdle
    /\ ScriptIdle
    /\ \E samples \in SeqsUpTo(EnvVals, MaxEnvLen),
          attack \in 0 .. MaxRamp, release \in 0 .. MaxRamp :
          env = [pc |-> "call", samples |-> samples, attack |-> attack,
                 release |-> release, out |-> Raised]

EnvCall ==
    /\ env.pc = "call"
    /\ env' = [env EXCEPT
                 !.pc = "done",
                 !.out = apply_envelope(env.samples, env.attack, env.release)]
    /\ UNCHANGED <<earlierVars, scriptVars, flt, batch, fr, osc>>

SpecEnvelope == EnvInit /\ [][EnvCall]_vars

\* C12: with A >= 1, R >= 1 and A + R <= n, apply_envelope returns n
\* samples: sample i < A is the input times i/A, sample n-R+i (0 <= i < R)
\* the input times (R-i)/R, the samples between are the input's; so the
\* first sample is 0 and the last is 1/R of its input in magnitude.
C12_EnvelopeRamps ==
    LET n == Len(env.samples)
        A == env.attack
        R == env.release
    IN  (env.pc = "done" /\ A >= 1 /\ R >= 1 /\ A + R <= n) =>
            /\ env.out.ok
            /\ Len(env.out.buf) = n
            /\ \A i \in 0 .. A - 1 :
                  env.out.buf[i + 1] = RMul(env.samples[i + 1], Rat(i, A))
            /\ \A i \in 0 .. R - 1 :
                  env.out.buf[n - R + i + 1]
                      = RMul(env.samples[n - R + i + 1], Rat(R - i, R))
            /\ \A i \in A .. n - R - 1 :
                  env.out.buf[i + 1] = env.samples[i + 1]
            /\ env.out.buf[1] = Zero
            /\ RAbs(env.out.buf[n]) = RDiv(RAbs(env.samples[n]), Rat(R, 1))

\* ramps of more than one sample each with an untouched sample between
C12_Witness ==
    /\ env.pc = "done"
    /\ env.attack >= 2
    /\ env.release >= 2
    /\ env.attack + env.release < Len(env.samples)
    /\ env.out.ok
    /\ env.out.buf[2] # env.samples[2]
    /\ env.out.buf[env.attack + 1] = env.samples[env.attack + 1]

\* C13 as claimed: when the attack and release sample counts together
\* exceed the buffer length, apply_envelope returns and does not raise.
C13_EnvelopeCompletes ==
    (/\ env.pc = "done"
     /\ env.attack + env.release > Len(env.samples))
    => env.out.ok

----------------------------------------------------------------------------
(* The filters called one after another in one process.  A lowpass call   *)
(* holds its cutoff in high_hz, a highpass call in low_hz.                 *)

\* the band edges gen_snare and gen_hihat pass to bandpass_filter, and the
\* lowest and highest of them as cutoffs
BandEdges == {<<800, 5000>>, <<6000, 16000>>}
Cutoffs == {800, 16000}
FilterVals == {<<1, 1>>, <<-1, 2>>}

LowpassCall(samples, cutoff_hz) ==
    [NoFilterCall EXCEPT !.fn = "lowpass_filter", !.high_hz = cutoff_hz,
                         !.samples = samples]
HighpassCall(samples, cutoff_hz) ==
    [NoFilterCall EXCEPT !.fn = "highpass_filter", !.low_hz = cutoff_hz,
                         !.samples = samples]
BandpassCall(samples, low_hz, high_hz) ==
    [NoFilterCall EXCEPT !.fn = "bandpass_filter", !.high_hz = high_hz,
                         !.low_hz = low_hz, !.samples = samples]

FilterInit ==
    /\ ov = OvIdle
    /\ TimelineIdle
    /\ SeqIdle
    /\ RcIdle
    /\ MxIdle
    /\ NzIdle
    /\ ProcIdle
    /\ EnvIdle /\ BatchIdle /\ FrIdle /\ OscIdle
    /\ ScriptIdle
    /\ flt = [pc |-> "ready", prior |-> NoFilterCall, call |-> NoFilterCall,
              out |-> <<>>]

Filtered(call, out) ==
    /\ flt.pc \in {"ready", "done"}
    /\ flt' = [flt EXCEPT !.pc = "done", !.prior = flt.call, !.call = call,
                          !.out = out]
    /\ UNCHANGED <<earlierVars, scriptVars, env, batch, fr, osc>>

CallLowpass(samples, cutoff_hz) ==
    Filtered(LowpassCall(samples, cutoff_hz),
             lowpass_filter(samples, cutoff_hz))

CallHighpass(samples, cutoff_hz) ==
    Filtered(HighpassCall(samples, cutoff_hz),
             highpass_filter(samples, cutoff_hz))

CallBandpass(samples, low_hz, high_hz) ==
    Filtered(BandpassCall(samples, low_hz, high_hz),
             bandpass_filter(samples, low_hz, high_hz))

FilterNext ==
    \/ \E samples \in SeqsUpTo(FilterVals, MaxFilterLen),
          cutoff_hz \in Cutoffs : CallLowpass(samples, cutoff_hz)
    \/ \E samples \in SeqsUpTo(FilterVals, MaxFilterLen),
          cutoff_hz \in Cutoffs : CallHighpass(samples, cutoff_hz)
    \/ \E samples \in SeqsUpTo(FilterVals, MaxFilterLen),
          edges \in BandEdges : CallBandpass(samples, edges[1], edges[2])

SpecFilter == FilterInit /\ [][FilterNext]_vars

\* y is x low-passed with coefficient a from zero state:
\* y[n] = y[n-1] + a * (x[n] - y[n-1]), y[-1] = 0
IsLowpassOf(y, x, a) ==
    /\ Len(y) = Len(x)
    /\ \A n \in 1 .. Len(x) :
          LET y1 == IF n = 1 THEN Zero ELSE y[n - 1]
          IN  y[n] = RAdd(y1, RMul(a, RSub(x[n], y1)))

\* y is x high-passed with coefficient a from zero state:
\* y[n] = a * (y[n-1] + x[n] - x[n-1]), y[-1] = x[-1] = 0
IsHighpassOf(y, x, a) ==
    /\ Len(y) = Len(x)
    /\ \A n \in 1 .. Len(x) :
          LET y1 == IF n = 1 THEN Zero ELSE y[n - 1]
              x1 == IF n = 1 THEN Zero ELSE x[n - 1]
          IN  y[n] = RMul(a, RSub(RAdd(y1, x[n]), x1))

\* C15: whatever filter call came before, a lowpass or highpass call
\* returns as many samples as it was given, computed by its recurrence from
\* zero state, so that its first output sample is a * x[0].
C15_FiltersFromZeroState ==
    flt.pc = "done" =>
        /\ flt.call.fn = "lowpass_filter" =>
              LET a == LowpassAlpha(flt.call.high_hz)
              IN  /\ IsLowpassOf(flt.out, flt.call.samples, a)
                  /\ Len(flt.out) > 0 =>
                        flt.out[1] = RMul(a, flt.call.samples[1])
        /\ flt.call.fn = "highpass_filter" =>
              LET a == HighpassAlpha(flt.call.low_hz)
              IN  /\ IsHighpassOf(flt.out, flt.call.samples, a)
                  /\ Len(flt.out) > 0 =>
                        flt.out[1] = RMul(a, flt.call.samples[1])

\* a highpass call on a full buffer right after another filter call that
\* ended on a non-zero sample
C15_Witness ==
    /\ flt.pc = "done"
    /\ flt.call.fn = "highpass_filter"
    /\ Len(flt.call.samples) = MaxFilterLen
    /\ flt.prior.fn \in {"lowpass_filter", "highpass_filter"}
    /\ Len(flt.prior.samples) > 0
    /\ flt.prior # flt.call
    /\ flt.out[1] # Zero

\* C16: bandpass_filter(samples, low_hz, high_hz) is the lowpass at high_hz
\* from zero state followed by the highpass at low_hz from zero state.
C16_BandpassCascade ==
    (flt.pc = "done" /\ flt.call.fn = "bandpass_filter") =>
        LET mid == lowpass_filter(flt.call.samples, flt.call.high_hz)
        IN  /\ IsLowpassOf(mid, flt.call.samples,
                           LowpassAlpha(flt.call.high_hz))
            /\ IsHighpassOf(flt.out, mid, HighpassAlpha(flt.call.low_hz))

\* a bandpass call on a full buffer whose result is not the one the
\* exchanged edges would give
C16_Witness ==
    /\ flt.pc = "done"
    /\ flt.call.fn = "bandpass_filter"
    /\ Len(flt.call.samples) = MaxFilterLen
    /\ flt.out # bandpass_filter_exchanged(flt.call.samples, flt.call.low_hz,
                                           flt.call.high_hz)

RECURSIVE RPow(_, _)
RPow(a, k) == IF k = 0 THEN One ELSE RMul(a, RPow(a, k - 1))

----------------------------------------------------------------------------
(* main: the manifest `files` and the loop over it.  Each entry is         *)
(* generated, then handed to encode_mp3, whose encoder, directory creation *)
(* and file write are the environment's to fail.  main has no try: an      *)
(* exception raised under it leaves the loop and main.                     *)

\* (recipe, duration in milliseconds) of each entry of `files`, in order
files ==
    << <<"gen_biplane_engine", 4000>>, <<"gen_prop_engine", 4000>>,
       <<"gen_bomber_engine", 5000>>, <<"gen_jet_engine", 4000>>,
       <<"gen_rocket_engine", 4000>>, <<"gen_wind", 5000>>,
       <<"gen_lofi_track_01", 12000>>, <<"gen_lofi_track_02", 13000>>,
       <<"gen_lofi_track_03", 14000>>,
       <<"gen_clue_pop", 400>>, <<"gen_landing_success", 900>>,
       <<"gen_coin_collect", 350>>, <<"gen_ui_click", 60>>,
       <<"gen_altitude_change", 600>>, <<"gen_boost_start", 800>> >>

BatchInit ==
    /\ ov = OvIdle
    /\ TimelineIdle
    /\ SeqIdle
    /\ RcIdle
    /\ MxIdle
    /\ NzIdle
    /\ ProcIdle
    /\ EnvIdle /\ FltIdle /\ FrIdle /\ OscIdle
    /\ ScriptIdle
    /\ batch = [pc |-> "loop", i |-> 1, samples |-> Failed, written |-> {},
                failed |-> {}, raised |-> "", log |-> <<>>]

BatchFrame == UNCHANGED <<earlierVars, scriptVars, env, flt, fr, osc>>

\* for path, gen_fn, kwargs in files: ... samples = gen_fn(**kwargs)
Generate ==
    /\ batch.pc = "loop"
    /\ batch.i <= Len(files)
    /\ LET samples == RecipeOutcome(files[batch.i][1], FALSE, files[batch.i][2])
       IN  batch' = [batch EXCEPT
                       !.pc = IF samples.ok THEN "convert" ELSE "aborted",
                       !.raised = IF samples.ok THEN "" ELSE "generate",
                       !.samples = samples,
                       !.log = Append(@, <<"Generating", batch.i>>)]
    /\ BatchFrame

\* encode_mp3: clamp, convert to 16-bit integers, struct.pack
Convert ==
    /\ batch.pc = "convert"
    /\ batch' = [batch EXCEPT !.pc = "encode"]
    /\ BatchFrame

\* encoder.encode(raw) and encoder.flush() return the MP3 data
EncodeReturns ==
    /\ batch.pc = "encode"
    /\ batch' = [batch EXCEPT !.pc = "makedirs"]
    /\ BatchFrame

\* os.makedirs(..., exist_ok=True) returns
MakedirsReturns ==
    /\ batch.pc = "makedirs"
    /\ batch' = [batch EXCEPT !.pc = "write"]
    /\ BatchFrame

\* open(output_path, "wb") and f.write(mp3_data) return; the entry is
\* reported and the loop goes on to the next one
WriteReturns ==
    /\ batch.pc = "write"
    /\ batch' = [batch EXCEPT !.pc = "loop",
                              !.i = @ + 1,
                              !.written = @ \cup {batch.i},
                              !.log = Append(@, <<"Written", batch.i>>)]
    /\ BatchFrame

\* the encoder, os.makedirs, open or write raises: nothing catches it, and
\* `raised` keeps which of them it was
AdapterFails ==
    /\ batch.pc \in {"encode", "makedirs", "write"}
    /\ batch' = [batch EXCEPT !.pc = "aborted", !.raised = batch.pc,
                              !.failed = @ \cup {batch.i}]
    /\ BatchFrame

\* the loop is exhausted: print("Done! ...")
BatchDone ==
    /\ batch.pc = "loop"
    /\ batch.i > Len(files)
    /\ batch' = [batch EXCEPT !.pc = "done", !.log = Append(@, <<"Done", Len(files)>>)]
    /\ BatchFrame

BatchNext ==
    \/ Generate
    \/ Convert
    \/ EncodeReturns
    \/ MakedirsReturns
    \/ WriteReturns
    \/ AdapterFails
    \/ BatchDone

SpecBatch == BatchInit /\ [][BatchNext]_vars

\* C18 as claimed: when the adapter fails on one entry, the run still
\* generates and encodes every other entry: at the end of the run every
\* entry of the manifest is either written or the one that failed.
C18_BatchContinues ==
    (batch.pc \in {"done", "aborted"} /\ batch.failed # {}) =>
        \A k \in 1 .. Len(files) : k \in batch.written \cup batch.failed

----------------------------------------------------------------------------
(* The primitives on list objects.  A Python list is an object that its    *)
(* caller and the callee share: the heap is the sequence of the lists that *)
(* exist, a list is known by its position in it, and a call is given       *)
(* positions.  A call returns <<heap, ret, ok>>: the heap it leaves, the   *)
(* list it returns, and whether it returned at all.                        *)

\* `result = samples`: the same list under another name
ListAlias(heap, src) == <<heap, src>>

\* `list(samples)`: a new list with the contents of samples
ListOf(heap, src) == <<Append(heap, heap[src]), Len(heap) + 1>>

\* a list built by the call ([], [0.0] * n, a comprehension) and filled
NewList(heap, contents) == <<Append(heap, contents), Len(heap) + 1>>

\* the call wrote `contents` to the list at `id`
Written(heap, id, contents) == [heap EXCEPT ![id] = contents]

\* result = list(samples); result[i] *= ...; return result
apply_envelope_on(heap, samples, attack, release) ==
    LET res == ListOf(heap, samples)
        out == apply_envelope(res[1][res[2]], attack, release)
    IN  IF out.ok THEN <<Written(res[1], res[2], out.buf), res[2], TRUE>>
        ELSE <<res[1], 0, FALSE>>

\* filtered = []; filtered.append(y) ...; return filtered
lowpass_filter_on(heap, samples, cutoff_hz) ==
    LET filtered == NewList(heap, lowpass_filter(heap[samples], cutoff_hz))
    IN  <<filtered[1], filtered[2], TRUE>>

highpass_filter_on(heap, samples, cutoff_hz) ==
    LET filtered == NewList(heap, highpass_filter(heap[samples], cutoff_hz))
    IN  <<filtered[1], filtered[2], TRUE>>

\* highpass_filter(lowpass_filter(samples, high_hz), low_hz)
bandpass_filter_on(heap, samples, low_hz, high_hz) ==
    LET low == lowpass_filter_on(heap, samples, high_hz)
    IN  highpass_filter_on(low[1], low[2], low_hz)

\* result = [0.0] * n; result[i] += w * s
mix_on(heap, sample_lists) ==
    LET out == mix([k \in 1 .. Len(sample_lists) |-> heap[sample_lists[k]]],
                   [given |-> FALSE, list |-> <<>>])
    IN  IF out.ok
        THEN LET res == NewList(heap, out.buf) IN <<res[1], res[2], TRUE>>
        ELSE <<heap, 0, FALSE>>

\* `return samples` under the threshold, else a new list
normalize_on(heap, samples, peak) ==
    LET out == normalize(heap[samples], peak)
    IN  IF ~out.ok THEN <<heap, 0, FALSE>>
        ELSE IF NormalizeDivides(heap[samples])
             THEN LET res == NewList(heap, out.buf) IN <<res[1], res[2], TRUE>>
             ELSE <<heap, samples, TRUE>>

\* result = list(base); result[idx] += s * amp; return result
overlay_samples_on(heap, base, overlay, start_sample, amp) ==
    LET res == ListOf(heap, base)
        out == overlay_samples(res[1][res[2]], res[1][overlay], start_sample, amp)
    IN  IF out.ok THEN <<Written(res[1], res[2], out.buf), res[2], TRUE>>
        ELSE <<res[1], 0, FALSE>>

\* the lists that exist before the call: two of them, of whole numbers for
\* overlay_samples and of fractions for the others
FrameVals(kind) == IF kind = "int" THEN {1, -2} ELSE {<<1, 1>>, <<-1, 2>>}

FrameInit ==
    /\ ov = OvIdle
    /\ TimelineIdle
    /\ SeqIdle
    /\ RcIdle
    /\ MxIdle
    /\ NzIdle
    /\ ProcIdle
    /\ EnvIdle /\ FltIdle /\ BatchIdle /\ OscIdle
    /\ ScriptIdle
    /\ \E kind \in {"int", "rat"} :
          \E a, b \in SeqsUpTo(FrameVals(kind), MaxFrameLen) :
             fr = [pc |-> "ready", kind |-> kind, heap0 |-> <<a, b>>,
                   heap |-> <<a, b>>, fn |-> "", args |-> <<>>, ret |-> 0,
                   ok |-> FALSE]

Called(kind, fn, args, effect) ==
    /\ fr.pc = "ready"
    /\ fr.kind = kind
    /\ fr' = [fr EXCEPT !.pc = "done", !.fn = fn, !.args = args,
                        !.heap = effect[1], !.ret = effect[2],
                        !.ok = effect[3]]
    /\ UNCHANGED <<earlierVars, scriptVars, env, flt, batch, osc>>

Lists == {1, 2}

FrameEnvelope ==
    \E samples \in Lists, attack \in 0 .. MaxFrameLen, release \in 0 .. MaxFrameLen :
        Called("rat", "apply_envelope", <<samples, attack, release>>,
               apply_envelope_on(fr.heap, samples, attack, release))

FrameLowpass ==
    \E samples \in Lists, cutoff_hz \in Cutoffs :
        Called("rat", "lowpass_filter", <<samples, cutoff_hz>>,
               lowpass_filter_on(fr.heap, samples, cutoff_hz))

FrameHighpass ==
    \E samples \in Lists, cutoff_hz \in Cutoffs :
        Called("rat", "highpass_filter", <<samples, cutoff_hz>>,
               highpass_filter_on(fr.heap, samples, cutoff_hz))

FrameBandpass ==
    \E samples \in Lists, edges \in BandEdges :
        Called("rat", "bandpass_filter", <<samples, edges[1], edges[2]>>,
               bandpass_filter_on(fr.heap, samples, edges[1], edges[2]))

FrameMix ==
    \E a \in Lists, b \in Lists :
        Called("rat", "mix", <<a, b>>, mix_on(fr.heap, <<a, b>>))

FrameNormalize ==
    \E samples \in Lists, peak \in Peaks :
        Called("rat", "normalize", <<samples, peak>>,
               normalize_on(fr.heap, samples, peak))

FrameOverlay ==
    \E base \in Lists, overlay \in Lists,
       start_sample \in -(MaxFrameLen + 1) .. MaxFrameLen, amp \in AmpVals :
        Called("int", "overlay_samples", <<base, overlay, start_sample, amp>>,
               overlay_samples_on(fr.heap, base, overlay, start_sample, amp))

FrameNext ==
    \/ FrameEnvelope
    \/ FrameLowpass
    \/ FrameHighpass
    \/ FrameBandpass
    \/ FrameMix
    \/ FrameNormalize
    \/ FrameOverlay

SpecFrame == FrameInit /\ [][FrameNext]_vars

\* C19: after a call of apply_envelope, lowpass_filter, highpass_filter,
\* bandpass_filter, mix, normalize or overlay_samples every list that
\* existed before the call has the contents and length it had; and the list
\* overlay_samples returns is not one that existed before the call.
C19_ArgumentsUnchanged ==
    fr.pc = "done" =>
        /\ Len(fr.heap) >= Len(fr.heap0)
        /\ \A id \in 1 .. Len(fr.heap0) : fr.heap[id] = fr.heap0[id]
        /\ (fr.fn = "overlay_samples" /\ fr.ok) => fr.ret > Len(fr.heap0)

\* overlay_samples returned a list that differs from its base
C19_Witness ==
    /\ fr.pc = "done"
    /\ fr.fn = "overlay_samples"
    /\ fr.ok
    /\ Len(fr.heap0[fr.args[1]]) = MaxFrameLen
    /\ fr.heap[fr.ret] # fr.heap0[fr.args[1]]
    /\ fr.heap[fr.args[1]] = fr.heap0[fr.args[1]]

----------------------------------------------------------------------------
(* The oscillator loops.  A phase is held in whole units of which one turn *)
(* (2 pi) has Turn, so that the per-sample increment 2 pi freq /           *)
(* SAMPLE_RATE of a frequency given in hundredths of a hertz is that many  *)
(* units.  A frequency that the code varies over the loop takes, at each   *)
(* iteration, the low or the high end of its range.                        *)

Turn == 100 * SAMPLE_RATE

Oscillators ==
    {"sine_wave_varying", "gen_biplane_engine", "gen_prop_engine",
     "gen_bomber_engine", "gen_jet_engine", "gen_rocket_engine",
     "gen_piano_note", "gen_snare", "gen_clue_pop", "gen_landing_success",
     "gen_coin_collect.phase1", "gen_coin_collect.phase2",
     "gen_coin_collect.phase3", "gen_ui_click", "gen_altitude_change",
     "gen_boost_start"}

\* the loops of gen_coin_collect, whose `if` is inside `for p in [...]`
CoinPhases ==
    {"gen_coin_collect.phase1", "gen_coin_collect.phase2",
     "gen_coin_collect.phase3"}

\* the loops with no `if phase > ...` at all
Unwrapped == {"gen_snare", "gen_ui_click"}

\* the integer harmonic indices k of the sin(k * phase) terms a loop sums
Harmonics(o) ==
    CASE o \in {"gen_biplane_engine", "gen_piano_note"} -> {1, 2, 3, 4, 6}
      [] o = "gen_prop_engine" -> {1, 2, 3, 4, 5}
      [] o \in {"gen_bomber_engine", "gen_landing_success",
                "gen_boost_start"} -> {1, 2, 3, 4}
      [] o \in {"gen_rocket_engine", "gen_clue_pop"} -> {1, 2, 3}
      [] o = "gen_jet_engine" -> {1, 2}
      [] OTHER -> {1}

\* the threshold taken as one turn per harmonic summed
WrapTurnsPerHarmonic(o) ==
    IF o \in Unwrapped THEN 0 ELSE Cardinality(Harmonics(o))

\* the k of `if phase > k * math.pi: phase -= k * math.pi`, in turns
WrapTurns(o) ==
    CASE o \in {"sine_wave_varying", "gen_altitude_change"} -> 1
      [] o \in CoinPhases -> 1
      [] o = "gen_jet_engine" -> 2
      [] o \in {"gen_biplane_engine", "gen_rocket_engine", "gen_clue_pop"} -> 3
      [] o \in {"gen_bomber_engine", "gen_landing_success", "gen_boost_start"} -> 4
      [] o = "gen_prop_engine" -> 5
      [] o = "gen_piano_note" -> 6
      [] o \in Unwrapped -> 0

\* the frequencies of each loop, in hundredths of a hertz
Freqs(o) ==
    CASE o = "sine_wave_varying"       -> {11000, 180000}
      [] o = "gen_biplane_engine"      -> {6675, 12765}
      [] o = "gen_prop_engine"         -> {16700, 18300}
      [] o = "gen_bomber_engine"       -> {6500, 8300}
      [] o = "gen_jet_engine"          -> {79000, 85000}
      [] o = "gen_rocket_engine"       -> {3500, 5500}
      [] o = "gen_piano_note"          -> {11000, 88000}
      [] o = "gen_snare"               -> {20000}
      [] o = "gen_clue_pop"            -> {20000, 80000}
      [] o = "gen_landing_success"     -> {52325, 104650}
      [] o = "gen_coin_collect.phase1" -> {131850}
      [] o = "gen_coin_collect.phase2" -> {209300}
      [] o = "gen_coin_collect.phase3" -> {88000}
      [] o = "gen_ui_click"            -> {120000}
      [] o = "gen_altitude_change"     -> {30000, 180000}
      [] o = "gen_boost_start"         -> {20000, 120000}

\* the phase a loop starts from: 0.0, and 0.5, 1.0, 1.5 radians for the
\* second to fourth engine of gen_bomber_engine (to the nearest unit)
InitPhases(o) ==
    IF o = "gen_bomber_engine" THEN {0, 350937, 701874, 1052811} ELSE {0}

\* the wrap with the turns written where the code writes multiples of pi:
\* if x > k * 2 * math.pi: x -= k * math.pi
WrapOncePi(x, o) ==
    IF x > WrapTurns(o) * Turn THEN x - (WrapTurns(o) * Turn) \div 2 ELSE x

\* if x > threshold: x -= threshold
WrapOnce(x, o) ==
    IF x > WrapTurns(o) * Turn THEN x - WrapTurns(o) * Turn ELSE x

\* the accumulator after the wrap statement of loop o: the statement is
\* absent from the Unwrapped loops, and in gen_coin_collect it assigns to
\* the loop variable p, not to phase1, phase2 or phase3
Accumulator(phase, o) ==
    IF o \in Unwrapped \cup CoinPhases THEN phase ELSE WrapOnce(phase, o)

\* the loop variable p of gen_coin_collect after its wrap statement
LoopVariable(phase, o) ==
    IF o \in CoinPhases THEN WrapOnce(phase, o) ELSE 0

OscInit ==
    /\ ov = OvIdle
    /\ TimelineIdle
    /\ SeqIdle
    /\ RcIdle
    /\ MxIdle
    /\ NzIdle
    /\ ProcIdle
    /\ EnvIdle /\ FltIdle /\ BatchIdle /\ FrIdle
    /\ ScriptIdle
    /\ \E o \in Oscillators : \E phase \in InitPhases(o) :
          osc = [pc |-> "loop", name |-> o, phase |-> phase, p |-> 0,
                 freq |-> 0, i |-> 0, before |-> phase]

\* one iteration: phase += 2 * math.pi * freq / SAMPLE_RATE, then the wrap;
\* before is the value the wrap statement finds
OscStep ==
    /\ osc.pc = "loop"
    /\ osc.i < MaxSteps
    /\ \E freq \in Freqs(osc.name) :
          osc' = [osc EXCEPT
                    !.phase = Accumulator(osc.phase + freq, osc.name),
                    !.p = LoopVariable(osc.phase + freq, osc.name),
                    !.freq = freq,
                    !.i = @ + 1,
                    !.before = osc.phase + freq]
    /\ UNCHANGED <<earlierVars, scriptVars, env, flt, batch, fr>>

\* range(n) is exhausted
OscExit ==
    /\ osc.pc = "loop"
    /\ osc.i > 0
    /\ osc' = [osc EXCEPT !.pc = "done"]
    /\ UNCHANGED <<earlierVars, scriptVars, env, flt, batch, fr>>

OscNext == OscStep \/ OscExit

\* the same loops run for longer at a frequency that varies slowly: it is
\* chosen anew every Hold iterations and held in between
Iterated(freq) ==
    [osc EXCEPT !.phase = Accumulator(osc.phase + freq, osc.name),
                !.p = LoopVariable(osc.phase + freq, osc.name),
                !.freq = freq,
                !.i = @ + 1,
                !.before = osc.phase + freq]

OscRetune ==
    /\ osc.pc = "loop"
    /\ osc.i < MaxIters
    /\ osc.i % Hold = 0
    /\ \E freq \in Freqs(osc.name) : osc' = Iterated(freq)
    /\ UNCHANGED <<earlierVars, scriptVars, env, flt, batch, fr>>

OscHold ==
    /\ osc.pc = "loop"
    /\ osc.i < MaxIters
    /\ osc.i % Hold # 0
    /\ osc' = Iterated(osc.freq)
    /\ UNCHANGED <<earlierVars, scriptVars, env, flt, batch, fr>>

WrapNext == OscRetune \/ OscHold \/ OscExit

SpecWrap == OscInit /\ [][WrapNext]_vars

SpecOsc == OscInit /\ [][OscNext]_vars

\* the threshold the phase of loop o is held to: the loop's own, and one
\* turn where the code has none
ClaimedThreshold(o) == (IF o \in Unwrapped THEN 1 ELSE WrapTurns(o)) * Turn

\* C20 as claimed: in every oscillator loop, after each sample step the
\* phase is at most the wrap threshold plus one per-sample increment.
C20_PhaseBounded ==
    osc.i > 0 => osc.phase <= ClaimedThreshold(osc.name) + osc.freq

----------------------------------------------------------------------------
(* The wrap statement and the harmonics.                                   *)

\* the variable the wrap statement of the loop assigns
AfterWrap == IF osc.name \in CoinPhases THEN osc.p ELSE osc.phase

\* the last iteration took the branch of the wrap statement
WrapTaken == osc.i > 0 /\ AfterWrap # osc.before

\* sin(k * x) = sin(k * y) because k * x and k * y differ by whole turns
SameSine(k, x, y) == (k * x) % Turn = (k * y) % Turn

\* C21: a wrap subtracts whole turns, so that for every harmonic index k
\* the loop sums, sin(k * phase) is the same before and after the wrap.
C21_WrapKeepsHarmonics ==
    osc.i > 0 =>
        \A k \in Harmonics(osc.name) : SameSine(k, osc.before, AfterWrap)

\* the six-harmonic loops have wrapped
C21_Witness ==
    /\ WrapTaken
    /\ osc.name \in {"gen_biplane_engine", "gen_prop_engine", "gen_piano_note"}

\* the least common multiple of a set of harmonic indices
LcmOf(S) ==
    CHOOSE n \in 1..60 :
        /\ \A k \in S : n % k = 0
        /\ \A m \in 1..(n - 1) : \E k \in S : m % k # 0

\* the loops that sum several harmonics of one phase
SharedPhase == {o \in Oscillators : Cardinality(Harmonics(o)) > 1}

\* C22 as claimed: where harmonics of one phase are summed, the phase is
\* wrapped at 2 pi times the least common multiple of the harmonic indices.
C22_ThresholdIsLcm ==
    (osc.i > 0 /\ osc.name \in SharedPhase) =>
        LET lcm == LcmOf(Harmonics(osc.name)) * Turn
        IN  AfterWrap = IF osc.before > lcm THEN osc.before - lcm
                        ELSE osc.before

\* C22 as amended: where harmonics of one phase are summed, a wrap is taken
\* at, and subtracts, 2 pi times a whole number that divides the least
\* common multiple of the harmonic indices.
C22_ThresholdDividesLcm ==
    (WrapTaken /\ osc.name \in SharedPhase) =>
        \E n \in 1..LcmOf(Harmonics(osc.name)) :
            /\ LcmOf(Harmonics(osc.name)) % n = 0
            /\ osc.before > n * Turn
            /\ osc.before - AfterWrap = n * Turn

\* gen_biplane_engine has wrapped at three turns, its harmonics having the
\* least common multiple 12
C22_Witness ==
    /\ WrapTaken
    /\ osc.name = "gen_biplane_engine"
    /\ osc.before - osc.phase = 3 * Turn
    /\ LcmOf(Harmonics(osc.name)) = 12

----------------------------------------------------------------------------
(* overlay_samples at any start offset *)

\* C23 as claimed: for any start offset, negative ones included,
\* overlay_samples returns, and adds amp*overlay[i] at index start+i only
\* where 0 <= start+i < len(base); an overlay sample aimed outside the buffer
\* is dropped and changes no other index.
C23_OverlayNeverWraps ==
    ov.pc = "done" =>
        /\ ov.out.ok
        /\ Len(ov.out.buf) = Len(ov.base)
        /\ \A p \in 1 .. Len(ov.base) :
              LET i == (p - 1) - ov.start_sample
              IN  ov.out.buf[p] =
                      ov.base[p] + (IF i >= 0 /\ i < Len(ov.overlay)
                                    THEN ov.amp * ov.overlay[i + 1] ELSE 0)

----------------------------------------------------------------------------
(* The stages of a track and its drum patterns *)

StageOrder == <<"lowpass", "tanh", "envelope", "normalize">>

IsPrefix(a, b) == Len(a) <= Len(b) /\ a = SubSeq(b, 1, Len(a))

\* C24: in each track the overlays all come first, then lowpass, tanh, the
\* fade and normalize, each once and in this order, on a timeline whose
\* length does not change; nothing is overlaid once the first whole-buffer
\* stage has run, and a track that returns has run all four stages.
C24_StageOrder ==
    [][ /\ IsPrefix(seq'.chain, StageOrder)
        /\ seq.chain # <<>> => seq'.overlays = seq.overlays
        /\ seq'.overlays # seq.overlays => seq'.chain = <<>>
        /\ seq.pc # "call" => seq'.n = seq.n
        /\ seq'.n = seq'.duration * 44100
        /\ seq'.pc = "done" => seq'.chain = StageOrder ]_vars

\* a track has returned after overlays of every role and the four stages
C24_Witness ==
    /\ seq.pc = "done"
    /\ seq.chain = StageOrder
    /\ {seq.overlays[k].role : k \in 1 .. Len(seq.overlays)} =
           {"melody", "bass", "kick", "snare", "hihat"}

\* the number of overlays of a role made at quarter-beat position q
Hits(role, q) ==
    Cardinality({k \in 1 .. Len(seq.overlays) :
                    seq.overlays[k].role = role /\ seq.overlays[k].q = q})

\* the drum loops of the track have all run
DrumsDone == seq.pc \in {"lofi", "fade", "normalize", "done", "raised"}

\* C25: once the drum loops have run, each drum role has fired once on
\* every beat index of its allowed set below int(duration*bpm/60) and on no
\* other, the closed hi-hat of tracks 01 and 03 once on every half-beat index
\* below int(duration*bpm/30), and every hit starts inside the buffer.
C25_DrumPattern ==
    DrumsDone =>
        LET t      == seq.track
            tempo  == <<75, 68, 80>>[t]
            beats  == (seq.duration * tempo) \div 60
            halves == (seq.duration * tempo) \div 30
            kick(i)  == CASE t = 1 -> i % 2 = 0
                          [] t = 2 -> i % 4 \in {0, 2}
                          [] t = 3 -> i % 4 \in {0, 3}
            snare(i) == CASE t = 1 -> i % 2 = 1
                          [] t = 2 -> i % 4 = 2
                          [] t = 3 -> i % 4 \in {1, 2}
        IN  /\ \A i \in 0 .. beats - 1 :
                  /\ Hits("kick", 4 * i) = (IF kick(i) THEN 1 ELSE 0)
                  /\ Hits("snare", 4 * i) = (IF snare(i) THEN 1 ELSE 0)
                  /\ t = 2 => Hits("hihat", 4 * i) = (IF i % 2 = 1 THEN 1 ELSE 0)
            /\ t # 2 => \A h \in 0 .. halves - 1 : Hits("hihat", 2 * h) = 1
            /\ \A k \in 1 .. Len(seq.overlays) :
                  LET o == seq.overlays[k]
                  IN  o.role \in {"kick", "snare", "hihat"} =>
                          /\ o.start < seq.n
                          /\ o.q < (IF o.role = "hihat" /\ t # 2
                                     THEN 2 * halves ELSE 4 * beats)
                          /\ o.role = "hihat" => o.q % (IF t = 2 THEN 4 ELSE 2) = 0
                          /\ o.role # "hihat" => o.q % 4 = 0

\* track 03 has run its drum loops over a full bar and more
C25_Witness ==
    /\ DrumsDone
    /\ seq.track = 3
    /\ Hits("kick", 12) = 1
    /\ Hits("snare", 8) = 1
    /\ Hits("hihat", 14) = 1

----------------------------------------------------------------------------
(* gen_landing_success.  A duration is a whole number of milliseconds, as  *)
(* the caller writes it (0.9, 0.7).  The products with SAMPLE_RATE are     *)
(* taken in IEEE doubles, where the product of a duration that is a whole  *)
(* number of hundredths can fall just below the whole number it equals in  *)
(* exact arithmetic, so that int() gives one less; the durations up to     *)
(* 1002 ms where it does are listed.                                       *)

\* <<t_start in ms, freq in hundredths of a hertz, amp in hundredths>>
chord_notes ==
    <<<<0, 52325, 35>>, <<150, 65925, 35>>, <<300, 78399, 35>>,
      <<500, 104650, 40>>>>

\* the durations d for which d * SAMPLE_RATE is below its exact value
LengthBelow == {350, 570, 690, 700}

\* the durations d for which (d - t_start) * SAMPLE_RATE is below its exact
\* value
NoteBelow(t_start) ==
    CASE t_start = 0   -> {350, 570, 690, 700}
      [] t_start = 150 -> {290, 470, 480, 490, 500, 570, 580, 590, 600, 690,
                           700, 710, 720, 820, 830, 840, 850}
      [] t_start = 300 -> {350, 410, 470, 570, 580, 690, 940, 950, 960, 970,
                           980, 990, 1000}
      [] t_start = 500 -> {570, 580, 590, 600, 610, 690, 700, 710, 720, 820,
                           830, 840, 850, 940, 950}

\* n = int(duration * SAMPLE_RATE)
LandLen(ms) ==
    (ms * SAMPLE_RATE) \div 1000 - (IF ms \in LengthBelow THEN 1 ELSE 0)

\* note_n = int((duration - t_start) * SAMPLE_RATE), and range(note_n), which
\* is empty for a negative note_n
NoteLen(ms, t_start) ==
    IF ms <= t_start THEN 0
    ELSE ((ms - t_start) * SAMPLE_RATE) \div 1000
         - (IF ms \in NoteBelow(t_start) THEN 1 ELSE 0)

\* start_idx = int(t_start * SAMPLE_RATE)
NoteStartIdx(t_start) == (t_start * SAMPLE_RATE) \div 1000

\* the samples of an overlay of len samples at start >= 0 that
\* overlay_samples drops from a buffer of n
Dropped(n, start, len) == IF start + len > n THEN start + len - n ELSE 0

LandInit ==
    /\ ov = OvIdle
    /\ TimelineIdle
    /\ SeqIdle
    /\ RcIdle
    /\ MxIdle
    /\ NzIdle
    /\ ProcIdle
    /\ EnvIdle /\ FltIdle /\ BatchIdle /\ FrIdle /\ OscIdle
    /\ RgIdle /\ RtIdle /\ CtIdle /\ ConvIdle
    /\ \E ms \in 0 .. MaxLandMs :
          land = [pc |-> "call", ms |-> ms, n |-> 0, k |-> 0, notes |-> <<>>]

\* n = int(duration * SAMPLE_RATE); result = [0.0] * n
LandBegin ==
    /\ land.pc = "call"
    /\ land' = [land EXCEPT !.pc = "notes", !.n = LandLen(land.ms)]
    /\ UNCHANGED <<earlierVars, audioCallVars, rg, rt, ct, conv>>

\* one iteration of `for (t_start, freq, amp) in chord_notes`: the note is
\* rendered and overlaid; <<start_idx, note_n, samples dropped>> is kept
LandNote ==
    /\ land.pc = "notes"
    /\ land.k < Len(chord_notes)
    /\ LET t_start == chord_notes[land.k + 1][1]
           start   == NoteStartIdx(t_start)
           note_n  == NoteLen(land.ms, t_start)
       IN  land' = [land EXCEPT
                      !.k = @ + 1,
                      !.notes = Append(@, <<start, note_n,
                                            Dropped(land.n, start, note_n)>>)]
    /\ UNCHANGED <<earlierVars, audioCallVars, rg, rt, ct, conv>>

\* return normalize(result, peak=0.85): max() of an empty buffer raises
LandReturn ==
    /\ land.pc = "notes"
    /\ land.k = Len(chord_notes)
    /\ land' = [land EXCEPT !.pc = IF land.n = 0 THEN "raised" ELSE "done"]
    /\ UNCHANGED <<earlierVars, audioCallVars, rg, rt, ct, conv>>

LandNext == LandBegin \/ LandNote \/ LandReturn

SpecLanding == LandInit /\ [][LandNext]_vars

\* C26 as claimed: for a duration above 0.50 s every chord note ends exactly
\* at the end of the buffer: its start index plus its length is the buffer
\* length, and the overlay drops none of its samples.
C26_NotesFitBuffer ==
    land.ms > 500 =>
        \A j \in 1 .. Len(land.notes) :
            /\ land.notes[j][1] + land.notes[j][2] <= land.n
            /\ land.notes[j][3] = 0
            /\ land.notes[j][1] + land.notes[j][2] = land.n

----------------------------------------------------------------------------
(* generate_region_data: generate_dart_region and the part of main that    *)
(* reports one region.  A row of the shapefile is <<code, name, polygons>>:*)
(* its iso_3166_2 code, whether it has a usable name, and the number of    *)
(* polygons extract_coords returns for it.  The generated lines are held   *)
(* by what they open with.                                                 *)

REGIONS == {"US", "GB", "IE", "CA"}

\* region_config['exclude']
exclude(region) == IF region = "US" THEN {"US-PR", "US-DC"} ELSE {}

\* the five lines.append of one area
AreaLines == <<"RegionalArea(", "code:", "name:", "points:", "),">>

Rows ==
    {<<code, named, polygons>> :
        code \in {"US-PR", "US-TX"}, named \in BOOLEAN, polygons \in {0, 2}}

\* the body of `for _, row in gdf.iterrows()` for one row
RowLines(region, row) ==
    IF row[1] \in exclude(region) THEN <<>>
    ELSE IF ~row[2] THEN <<>>
    ELSE IF row[3] = 0 THEN <<>>
    ELSE AreaLines

RegionInit ==
    /\ ov = OvIdle
    /\ TimelineIdle
    /\ SeqIdle
    /\ RcIdle
    /\ MxIdle
    /\ NzIdle
    /\ ProcIdle
    /\ EnvIdle /\ FltIdle /\ BatchIdle /\ FrIdle /\ OscIdle
    /\ LandIdle /\ RtIdle /\ CtIdle /\ ConvIdle
    /\ \E region \in REGIONS, rows \in SeqsUpTo(Rows, MaxRows) :
          rg = [pc |-> "rows", region |-> region, rows |-> rows, i |-> 0,
                lines |-> <<>>, doc |-> 0, console |-> 0]

\* one iteration of the loop of generate_dart_region
RegionRow ==
    /\ rg.pc = "rows"
    /\ rg.i < Len(rg.rows)
    /\ rg' = [rg EXCEPT !.i = @ + 1,
                        !.lines = @ \o RowLines(rg.region, rg.rows[rg.i + 1])]
    /\ UNCHANGED <<earlierVars, audioCallVars, land, rt, ct, conv>>

\* generate_dart_region returns and main writes the doc comment and the
\* console line, both with len(dart_lines) // 4
RegionReport ==
    /\ rg.pc = "rows"
    /\ rg.i = Len(rg.rows)
    /\ rg' = [rg EXCEPT !.pc = "done",
                        !.doc = Len(rg.lines) \div 4,
                        !.console = Len(rg.lines) \div 4]
    /\ UNCHANGED <<earlierVars, audioCallVars, land, rt, ct, conv>>

RegionNext == RegionRow \/ RegionReport

SpecRegion == RegionInit /\ [][RegionNext]_vars

\* the RegionalArea entries among the generated lines
Emitted ==
    Cardinality({k \in 1 .. Len(rg.lines) : rg.lines[k] = "RegionalArea("})

\* C27 as claimed: the area count written in the doc comment and printed on
\* the console is the number of RegionalArea entries emitted for the region.
C27_AreaCountReported ==
    rg.pc = "done" => rg.doc = Emitted /\ rg.console = Emitted

----------------------------------------------------------------------------
(* The country file: generate_dart writes it, parse_polygons_from_dart     *)
(* reads it back.  A text is a sequence of lexemes <<kind, lng, lat>>: the *)
(* kinds are "polygons:", "[", "]", "Vector2(lng, lat)" with its two       *)
(* numbers as written, "Vector2(-, -)" whose groups match [-\d.]+ and are  *)
(* no numbers, the bare identifier "Vector2", and "x" for any other text.  *)
(* A coordinate is a whole number of tenths of a millionth of a degree; a  *)
(* written number is <<minus sign, millionths>>.                           *)

NoNumber == <<FALSE, 0>>
Lex(kind) == <<kind, NoNumber, NoNumber>>

\* f'{lng:.6f}': the sign, and the magnitude to the nearest millionth
FormatCoord(c) == <<c < 0, RoundDiv(IF c < 0 THEN -c ELSE c, 10)>>

\* format_vector2
format_vector2(lng, lat) ==
    <<"Vector2(lng, lat)", FormatCoord(lng), FormatCoord(lat)>>

\* float(m.group(k)) of a written number, in millionths: -0.000000 is 0.0
ParseFloat(text) == IF text[1] THEN -text[2] ELSE text[2]

\* the text before the country list: the class declarations mention
\* Vector2 and [lng, lat], and `countries = [` opens the list
FileHead ==
    <<Lex("x"), Lex("Vector2"), Lex("x"), Lex("["), Lex("x"), Lex("]"),
      Lex("x"), Lex("Vector2"), Lex("x"), Lex("Vector2"), Lex("x"), Lex("["),
      Lex("x"), Lex("]"), Lex("x"), Lex("[")>>

\* the helper methods after the cities section
FileTail == <<Lex("x"), Lex("["), Lex("x"), Lex("]"), Lex("x")>>

RECURSIVE WritePolygon(_, _)
WritePolygon(polygon, k) ==
    IF k > Len(polygon) THEN <<>>
    ELSE <<format_vector2(polygon[k][1], polygon[k][2]), Lex("x")>>
         \o WritePolygon(polygon, k + 1)

RECURSIVE WritePolygons(_, _)
WritePolygons(polygons, k) ==
    IF k > Len(polygons) THEN <<>>
    ELSE <<Lex("[")>> \o WritePolygon(polygons[k], 1) \o <<Lex("]"), Lex("x")>>
         \o WritePolygons(polygons, k + 1)

\* one country is <<has a capital, polygons>>
RECURSIVE WriteCountries(_, _)
WriteCountries(countries, k) ==
    IF k > Len(countries) THEN <<>>
    ELSE <<Lex("x")>> \o (IF countries[k][1] THEN <<Lex("x")>> ELSE <<>>)
         \o <<Lex("polygons:"), Lex("x"), Lex("[")>>
         \o WritePolygons(countries[k][2], 1)
         \o <<Lex("]"), Lex("x")>>
         \o WriteCountries(countries, k + 1)

\* the cities block of the previous file, a CityData with its location per
\* city, or the empty list written when there is none
RECURSIVE WriteCities(_, _)
WriteCities(cities, k) ==
    IF k > Len(cities) THEN <<>>
    ELSE <<Lex("x"), format_vector2(cities[k][1], cities[k][2]), Lex("x")>>
         \o WriteCities(cities, k + 1)

generate_dart(countries, cities) ==
    FileHead \o WriteCountries(countries, 1) \o <<Lex("]"), Lex("x")>>
    \o <<Lex("x"), Lex("[")>> \o WriteCities(cities, 1)
    \o <<Lex("]"), Lex("x")>> \o FileTail

\* if len(current_poly) > MIN_POLYGON_POINTS, the writer's bound taken
\* strictly
KeepsPolygonStrict(current_poly) == Len(current_poly) > 4

\* if len(current_poly) >= 3
KeepsPolygon(current_poly) == Len(current_poly) >= 3

\* one iteration of `while i < length` on the parser state s
Scan(s) ==
    LET tok == s.content[s.i + 1]
        opened == s.in_polygons /\ tok[1] = "["
        closed == s.in_polygons /\ tok[1] = "]"
        depth1 == IF opened THEN s.poly_depth + 1 ELSE s.poly_depth
        depth2 == IF closed THEN depth1 - 1 ELSE depth1
        poly1  == IF (opened /\ depth1 = 2) \/ (closed /\ depth1 = 2)
                  THEN <<>> ELSE s.current_poly
        all1   == IF closed /\ depth1 = 2 /\ KeepsPolygon(s.current_poly)
                  THEN Append(s.all_polygons, s.current_poly)
                  ELSE s.all_polygons
        in1    == IF closed /\ depth2 <= 0 THEN FALSE ELSE s.in_polygons
    IN  IF tok[1] = "polygons:"
        THEN [s EXCEPT !.in_polygons = TRUE, !.poly_depth = 0, !.i = @ + 1]
        ELSE IF s.in_polygons /\ depth2 >= 2
                /\ tok[1] \in {"Vector2(lng, lat)", "Vector2(-, -)"}
        THEN IF tok[1] = "Vector2(-, -)"
             THEN [s EXCEPT !.pc = "raised"]
             ELSE [s EXCEPT !.current_poly =
                               Append(@, <<ParseFloat(tok[2]),
                                           ParseFloat(tok[3])>>),
                            !.i = @ + 1]
        ELSE [s EXCEPT !.in_polygons = in1, !.poly_depth = depth2,
                       !.current_poly = poly1, !.all_polygons = all1,
                       !.i = @ + 1]

\* the coordinates of the model, none of them half-way between two
\* millionths
Vertices ==
    <<<<-14, 6>>, <<23, -4>>, <<1800000000, -900000000>>, <<0, 0>>>>

\* the polygons a country can have: rings of MIN_POLYGON_POINTS or more
\* coordinates
PolygonLists ==
    {<<<<Vertices[1], Vertices[2], Vertices[3], Vertices[1]>>>>,
     <<<<Vertices[2], Vertices[3], Vertices[4], Vertices[1], Vertices[2]>>,
       <<Vertices[3], Vertices[1], Vertices[4], Vertices[3]>>>>}

Countries == {<<capital, polygons>> : capital \in BOOLEAN, polygons \in PolygonLists}

Lexemes ==
    {Lex("polygons:"), Lex("["), Lex("]"), Lex("Vector2"), Lex("x"),
     format_vector2(-14, 6), Lex("Vector2(-, -)")}

RtInit ==
    /\ ov = OvIdle
    /\ TimelineIdle
    /\ SeqIdle
    /\ RcIdle
    /\ MxIdle
    /\ NzIdle
    /\ ProcIdle
    /\ EnvIdle /\ FltIdle /\ BatchIdle /\ FrIdle /\ OscIdle
    /\ LandIdle /\ RgIdle /\ CtIdle /\ ConvIdle
    /\ \/ \E countries \in SeqsUpTo(Countries, MaxCountries),
             cities \in SeqsUpTo({Vertices[1], Vertices[3]}, MaxCities) :
             rt = [pc |-> "write", written |-> TRUE, countries |-> countries,
                   cities |-> cities, content |-> <<>>, i |-> 0,
                   in_polygons |-> FALSE, poly_depth |-> 0,
                   current_poly |-> <<>>, all_polygons |-> <<>>]
       \/ \E content \in SeqsUpTo(Lexemes, MaxText) :
             rt = [pc |-> "scan", written |-> FALSE, countries |-> <<>>,
                   cities |-> <<>>, content |-> content, i |-> 0,
                   in_polygons |-> FALSE, poly_depth |-> 0,
                   current_poly |-> <<>>, all_polygons |-> <<>>]

\* generate_dart writes the file; parse_polygons_from_dart reads it, finds
\* no 'static final countries' in it and scans it from the start
RtWrite ==
    /\ rt.pc = "write"
    /\ rt' = [rt EXCEPT !.pc = "scan",
                        !.content = generate_dart(rt.countries, rt.cities)]
    /\ UNCHANGED <<earlierVars, audioCallVars, land, rg, ct, conv>>

RtScan ==
    /\ rt.pc = "scan"
    /\ rt.i < Len(rt.content)
    /\ rt' = Scan(rt)
    /\ UNCHANGED <<earlierVars, audioCallVars, land, rg, ct, conv>>

\* return all_polygons
RtReturn ==
    /\ rt.pc = "scan"
    /\ rt.i >= Len(rt.content)
    /\ rt' = [rt EXCEPT !.pc = "done"]
    /\ UNCHANGED <<earlierVars, audioCallVars, land, rg, ct, conv>>

RtNext == RtWrite \/ RtScan \/ RtReturn

SpecRoundTrip == RtInit /\ [][RtNext]_vars

\* a coordinate to six decimals, in millionths
SixDecimals(c) == IF c < 0 THEN -((5 - c) \div 10) ELSE (c + 5) \div 10

\* the polygons of a list of countries in the order written
RECURSIVE PolygonsOf(_, _)
PolygonsOf(countries, k) ==
    IF k > Len(countries) THEN <<>>
    ELSE [j \in 1 .. Len(countries[k][2]) |->
             [v \in 1 .. Len(countries[k][2][j]) |->
                 <<SixDecimals(countries[k][2][j][v][1]),
                   SixDecimals(countries[k][2][j][v][2])>>]]
         \o PolygonsOf(countries, k + 1)

\* C28: the parser returns from a file written by generate_dart exactly the
\* polygons written, in order, vertex by vertex to six decimals, and none
\* of the Vector2 outside the polygons lists; on every text each iteration
\* of its scan loop moves forward and stays inside the text, so the loop
\* ends.
C28_RoundTrip ==
    [][ /\ (rt.pc = "scan" /\ rt'.pc = "scan") => rt'.i > rt.i
        /\ rt'.i <= Len(rt'.content)
        /\ (rt'.pc = "done" /\ rt'.written) =>
               rt'.all_polygons = PolygonsOf(rt'.countries, 1) ]_vars

\* a file of two countries, three polygons and a city has been read back
C28_Witness ==
    /\ rt.pc = "done"
    /\ rt.written
    /\ Len(rt.countries) = 2
    /\ Len(rt.cities) = 1
    /\ Len(rt.all_polygons) = 3
    /\ rt.all_polygons[1][1] = <<-1, 1>>

----------------------------------------------------------------------------
(* The cities section of country_data.dart over regenerations.  A file is  *)
(* a sequence of lexemes: "marker" is the comment line                     *)
(* '  // Major cities for low-altitude view', "decl" is                    *)
(* 'static final List<CityData> majorCities', "nl2" two newlines, "x" any  *)
(* other text, and "[", "]", ";" themselves.  The country list the file    *)
(* also holds is part of the text before the section.                      *)

\* source.find(x, from): the first index >= from (from 0) that holds x, or -1
RECURSIVE Find(_, _, _)
Find(source, x, from) ==
    IF from >= Len(source) THEN -1
    ELSE IF source[from + 1] = x THEN from
    ELSE Find(source, x, from + 1)

\* source[a:b]
Slice(source, a, b) == SubSeq(source, a + 1, b)

\* the block without `end_idx += 1`, the semicolon left out
BlockUpToBracket(source, start_idx, i) ==
    LET end_idx == Find(source, ";", i)
    IN  Slice(source, start_idx, IF end_idx = -1 THEN i + 1 ELSE end_idx)
        \o <<"nl2">>

\* the return statement once the matching bracket is found at i
BlockUpTo(source, start_idx, i) ==
    LET end_idx == Find(source, ";", i)
    IN  Slice(source, start_idx, IF end_idx = -1 THEN i + 1 ELSE end_idx + 1)
        \o <<"nl2">>

\* `while i < len(source)` of _extract_cities_block: <<found, block>>
RECURSIVE MatchLoop(_, _, _, _)
MatchLoop(source, start_idx, i, depth) ==
    IF i >= Len(source) THEN <<FALSE, <<>>>>
    ELSE IF source[i + 1] = "["
         THEN MatchLoop(source, start_idx, i + 1, depth + 1)
    ELSE IF source[i + 1] = "]"
         THEN IF depth - 1 = 0
              THEN <<TRUE, BlockUpTo(source, start_idx, i)>>
              ELSE MatchLoop(source, start_idx, i + 1, depth - 1)
    ELSE MatchLoop(source, start_idx, i + 1, depth)

\* _extract_cities_block on the text read: <<found, block>>, found FALSE
\* for None
extract_from(source) ==
    LET start_idx == Find(source, "marker", 0)
        search_from == IF start_idx = -1 THEN -1
                       ELSE Find(source, "decl", start_idx)
        bracket_start == IF search_from = -1 THEN -1
                         ELSE Find(source, "[", search_from)
    IN  IF bracket_start = -1 THEN <<FALSE, <<>>>>
        ELSE MatchLoop(source, start_idx, bracket_start, 0)

\* `for p in [output_path, backup_path]: if os.path.exists(p)`: the file read
FirstExisting(output, backup) ==
    IF output.exists THEN output ELSE IF backup.exists THEN backup ELSE NoFile

\* what generate_dart writes before the cities section (the class
\* declarations and the country list) and after it (the helper methods)
BeforeCities == <<"x", ";", "x", "[", "x", "[", "x", "]", "]", ";", "nl2">>
AfterCities == <<"x", "[", "x", "]", ";", "x">>

\* the section written when no block was found
EmptyCities == <<"marker", "decl", "x", "[", "]", ";", "nl2">>

\* the cities sections an existing file can hold: a list of one city, a
\* list with nested brackets, an empty list, a list closed by `].x;`, and
\* the damaged ones: never closed, without its declaration, without its
\* marker, without a semicolon
Sections ==
    {<<"marker", "decl", "x", "[", "x", "]", ";">>,
     <<"marker", "x", "decl", "x", "[", "x", "[", "x", "]", "x", "]", ";">>,
     <<"marker", "decl", "x", "[", "]", ";">>,
     <<"marker", "decl", "x", "[", "x", "]", "x", ";">>,
     <<"marker", "decl", "x", "[", "x">>,
     <<"marker", "x">>,
     <<"decl", "x", "[", "x", "]", ";">>,
     <<"marker", "decl", "x", "[", "x", "]">>}

Befores == {<<>>, <<"x", ";", "[", "x", "]", ";", "nl2">>}
Afters == {<<>>, <<"nl2", "x", ";">>, <<"x", "[", "]", ";", "x">>}

Files ==
    {NoFile} \cup
    {[exists |-> TRUE, text |-> b \o sec \o a] :
        b \in Befores, sec \in Sections, a \in Afters}

CitiesInit ==
    /\ ov = OvIdle
    /\ TimelineIdle
    /\ SeqIdle
    /\ RcIdle
    /\ MxIdle
    /\ NzIdle
    /\ ProcIdle
    /\ EnvIdle /\ FltIdle /\ BatchIdle /\ FrIdle /\ OscIdle
    /\ LandIdle /\ RgIdle /\ RtIdle /\ ConvIdle
    /\ \E output \in Files, backup \in Files :
          ct = [pc |-> "extract", output |-> output, backup |-> backup,
                prior |-> NoFile, found |-> FALSE, block |-> <<>>,
                kept |-> <<>>, gen |-> 0]

\* cities_block = _extract_cities_block(output_path, backup_path)
ExtractCities ==
    /\ ct.pc = "extract"
    /\ LET prior == FirstExisting(ct.output, ct.backup)
           out   == IF prior.exists THEN extract_from(prior.text)
                    ELSE <<FALSE, <<>>>>
       IN  ct' = [ct EXCEPT !.pc = "open", !.prior = prior, !.found = out[1],
                            !.block = out[2]]
    /\ UNCHANGED <<earlierVars, audioCallVars, land, rg, rt, conv>>

\* with open(output_path, 'w') as f: the file exists and is empty
OpenOutput ==
    /\ ct.pc = "open"
    /\ ct' = [ct EXCEPT !.pc = "write",
                        !.output = [exists |-> TRUE, text |-> <<>>]]
    /\ UNCHANGED <<earlierVars, audioCallVars, land, rg, rt, conv>>

\* the writes of generate_dart, the cities block or the empty list among
\* them; kept is the section written
WriteOutput ==
    /\ ct.pc = "write"
    /\ LET section == IF ct.found /\ ct.block # <<>> THEN ct.block
                      ELSE EmptyCities
       IN  ct' = [ct EXCEPT !.pc = "written", !.gen = @ + 1,
                            !.kept = section,
                            !.output = [exists |-> TRUE,
                                        text |-> BeforeCities \o section
                                                 \o AfterCities]]
    /\ UNCHANGED <<earlierVars, audioCallVars, land, rg, rt, conv>>

\* the script is run again
Regenerate ==
    /\ ct.pc = "written"
    /\ ct.gen < MaxRegens
    /\ ct' = [ct EXCEPT !.pc = "extract"]
    /\ UNCHANGED <<earlierVars, audioCallVars, land, rg, rt, conv>>

CitiesNext == ExtractCities \/ OpenOutput \/ WriteOutput \/ Regenerate

SpecCities == CitiesInit /\ [][CitiesNext]_vars

\* the number of "[" less the number of "]" in source[a:b]
Balance(source, a, b) ==
    Cardinality({k \in a + 1 .. b : source[k] = "["})
    - Cardinality({k \in a + 1 .. b : source[k] = "]"})

\* <<m, e>> is the cities section of the text: the first marker is at m,
\* the declaration follows it, the first "[" after the declaration is
\* closed by the "]" at c, and the first ";" after c is at e - 1
IsSection(source, m, e) ==
    /\ m \in 0 .. Len(source) - 1
    /\ e \in 1 .. Len(source)
    /\ source[m + 1] = "marker"
    /\ \A k \in 1 .. m : source[k] # "marker"
    /\ \E d \in m .. e - 1, b \in m .. e - 1, c \in m .. e - 1 :
          /\ d < b /\ b < c /\ c < e - 1
          /\ source[d + 1] = "decl"
          /\ \A k \in m + 1 .. d : source[k] # "decl"
          /\ source[b + 1] = "["
          /\ \A k \in d + 1 .. b : source[k] # "["
          /\ source[c + 1] = "]"
          /\ Balance(source, b, c + 1) = 0
          /\ \A j \in b + 1 .. c : Balance(source, b, j) > 0
          /\ source[e] = ";"
          /\ \A k \in c + 1 .. e - 1 : source[k] # ";"

\* the text holds the block at some place
Holds(text, block) ==
    \E k \in 0 .. Len(text) - Len(block) : Slice(text, k, k + Len(block)) = block

\* C29: when the file read (the existing output, or the backup if there is
\* no output) holds a cities section from the marker through the closing
\* bracket and its semicolon, that section is what was extracted, before
\* the output is emptied; it is in the new file verbatim; extracting from
\* the new file gives the block written; and the next regeneration
\* extracts the section the last one wrote, when that was a whole section.
C29_CitiesPreserved ==
    \A m \in 0 .. Len(ct.prior.text), e \in 0 .. Len(ct.prior.text) :
        (ct.prior.exists /\ IsSection(ct.prior.text, m, e)) =>
            /\ ct.pc \in {"open", "write", "written"} =>
                  /\ ct.found
                  /\ ct.block = Slice(ct.prior.text, m, e) \o <<"nl2">>
            /\ ct.pc = "open" =>
                  ct.prior = FirstExisting(ct.output, ct.backup)
            /\ ct.pc = "written" =>
                  /\ Holds(ct.output.text, ct.block)
                  /\ extract_from(ct.output.text) = <<TRUE, ct.block>>
            /\ (/\ ct.pc \in {"open", "write"} /\ ct.gen >= 1
                /\ IsSection(ct.kept, 0, Len(ct.kept) - 1)) =>
                  ct.block = ct.kept

\* a section read from the backup has been regenerated twice
C29_Witness ==
    /\ ct.pc = "written"
    /\ ct.gen = 2
    /\ ct.backup.exists
    /\ Holds(ct.backup.text, Slice(ct.block, 0, Len(ct.block) - 1))
    /\ ct.found
    /\ Len(ct.block) > Len(EmptyCities)
    /\ ct.block = ct.kept

\* ------------------------------------------------------------------
\* convert_assets.main: the conversion steps and their handlers
\* ------------------------------------------------------------------

\* the calls of main, in the order of its statements
Steps ==
    <<"convert_blue_marble", "convert_heightmap", "convert_city_lights",
      "generate_shore_distance", "convert_music", "convert_audio_dir(ENGINES)",
      "convert_audio_dir(SFX)">>

\* the packages main looks for
Packages == {"Pillow", "rasterio", "pydub", "scipy"}

\* the imports at the head of each step's function
Imports(step) ==
    CASE step = "convert_blue_marble" -> {"Pillow"}
      [] step = "convert_heightmap" -> {"rasterio"}
      [] step = "convert_city_lights" -> {"Pillow"}
      [] step = "generate_shore_distance" -> {"Pillow", "scipy"}
      [] OTHER -> {"pydub"}

\* what a step can raise
Raisable == {"ImportError", "OSError", "ValueError", "KeyError"}

\* a handler that names one class of error only
CaughtOSErrorOnly(exc) == exc = "OSError"

\* `except Exception as e`
Caught(exc) == exc \in Raisable

\* the statement after step i: the next step, or the summary
Following(i) == IF i < Len(Steps) THEN "try" ELSE "summary"

ConvInit ==
    /\ ov = OvIdle
    /\ TimelineIdle
    /\ SeqIdle
    /\ RcIdle
    /\ MxIdle
    /\ NzIdle
    /\ ProcIdle
    /\ EnvIdle /\ FltIdle /\ BatchIdle /\ FrIdle /\ OscIdle
    /\ LandIdle /\ RgIdle /\ RtIdle /\ CtIdle
    /\ conv = [pc |-> "deps", i |-> 0, missing |-> {}, exc |-> "",
               heightmap_path |-> "None", arg |-> "", ran |-> <<>>,
               raised |-> {}, reported |-> {}]

\* the dependency check: the missing packages are listed and main goes on
ConvDeps ==
    /\ conv.pc = "deps"
    /\ \E missing \in SUBSET Packages :
          conv' = [conv EXCEPT !.pc = "try", !.i = 1, !.missing = missing]
    /\ UNCHANGED <<earlierVars, audioCallVars, land, rg, rt, ct>>

\* the call inside the i-th try: it returns, or raises; a function whose
\* import is missing raises ImportError
ConvCall ==
    /\ conv.pc = "try"
    /\ LET step == Steps[conv.i]
           arg == IF step = "generate_shore_distance"
                  THEN conv.heightmap_path ELSE conv.arg
           begun == [conv EXCEPT !.ran = Append(@, step), !.arg = arg]
       IN  \/ /\ Imports(step) \cap conv.missing = {}
              /\ \E ret \in IF step = "convert_heightmap"
                              THEN {"None", "heightmap.png"}
                              ELSE {conv.heightmap_path} :
                    conv' = [begun EXCEPT !.pc = Following(conv.i),
                                          !.i = @ + 1,
                                          !.heightmap_path = ret]
           \/ \E exc \in IF Imports(step) \cap conv.missing # {}
                           THEN {"ImportError"}
                           ELSE Raisable \ {"ImportError"} :
                 conv' = [begun EXCEPT !.pc = "except", !.exc = exc,
                                       !.raised = @ \cup {step}]
    /\ UNCHANGED <<earlierVars, audioCallVars, land, rg, rt, ct>>

\* the handler of the i-th try: print ERROR and go on; an error the handler
\* does not name leaves main
ConvExcept ==
    /\ conv.pc = "except"
    /\ conv' = IF Caught(conv.exc)
               THEN [conv EXCEPT !.pc = Following(conv.i), !.i = @ + 1,
                                 !.exc = "",
                                 !.reported = @ \cup {Steps[conv.i]}]
               ELSE [conv EXCEPT !.pc = "aborted"]
    /\ UNCHANGED <<earlierVars, audioCallVars, land, rg, rt, ct>>

\* the summary: the files present and the files still needed
ConvSummary ==
    /\ conv.pc = "summary"
    /\ conv' = [conv EXCEPT !.pc = "done"]
    /\ UNCHANGED <<earlierVars, audioCallVars, land, rg, rt, ct>>

ConvNext == ConvDeps \/ ConvCall \/ ConvExcept \/ ConvSummary

SpecConvert == ConvInit /\ [][ConvNext]_vars

\* main runs its statements one after another until it returns
SpecConvertRuns == SpecConvert /\ WF_vars(ConvNext)

\* blue marble, heightmap, city lights, shore distance, music, engine
\* audio, SFX audio
FixedOrder ==
    <<"convert_blue_marble", "convert_heightmap", "convert_city_lights",
      "generate_shore_distance", "convert_music", "convert_audio_dir(ENGINES)",
      "convert_audio_dir(SFX)">>

\* the steps begun are the first ones of the fixed order, every error raised
\* is reported or about to be, and the summary comes after all seven
StepsInOrder ==
    /\ IsPrefix(conv.ran, FixedOrder)
    /\ conv.pc # "aborted"
    /\ conv.reported \subseteq conv.raised
    /\ conv.pc = "except" => conv.raised \ conv.reported = {Steps[conv.i]}
    /\ conv.pc \in {"try", "summary", "done"} => conv.reported = conv.raised
    /\ conv.pc = "try" => Len(conv.ran) = conv.i - 1
    /\ conv.pc \in {"summary", "done"} => conv.ran = FixedOrder

\* C30: the steps of convert_assets.main run in the order blue marble,
\* heightmap, city lights, shore distance, music, engine audio, SFX audio;
\* an exception raised by a step is caught and reported and the next step
\* runs all the same; every run reaches the summary.
C30_EveryStepRuns == []StepsInOrder /\ <>(conv.pc = "summary")

\* every step raised, was reported, and the summary was printed
C30_Witness ==
    /\ conv.pc = "done"
    /\ conv.ran = Steps
    /\ conv.raised = {Steps[k] : k \in 1 .. Len(Steps)}
    /\ conv.reported = conv.raised
    /\ conv.arg = "None"

====
